---- MODULE Spec2Model ----
(***************************************************************************)
(* rust-lox: the branching scope arena (src/interpret/branching_scope.rs)  *)
(* and the statement evaluator that drives it (src/interpret/              *)
(* interpreter.rs, src/interpret/lox_fn.rs).                               *)
(*                                                                         *)
(* Spec      : the evaluator running an arbitrary program.  Each action is *)
(*             one statement handler, or one half (entry / exit) of a      *)
(*             handler that encloses other statements (a block, a call).   *)
(*             The statements a program is made of are chosen one at a     *)
(*             time, so the behaviours are those of every program over     *)
(*             the bounded names and literals.                             *)
(* SpecArena : the arena alone, driven through its public methods the way  *)
(*             its unit tests drive it.                                    *)
(* SpecRun   : the `run` command on a whole program: the syntax tree is    *)
(*             drawn from Programs, and each step is interpret_stmt, with  *)
(*             everything it evaluates, on the next top-level statement.   *)
(* SpecScan  : the scanner (src/scan/scanner.rs) on a source text drawn    *)
(*             from Sources; a step is one turn of the scan_tokens loop.   *)
(* SpecParse : the parser (src/parse/parser.rs) on a token list drawn from *)
(*             TokenLists; a step is one declaration parsed by parse.      *)
(***************************************************************************)
EXTENDS Integers, Sequences, FiniteSets, TLC

VARIABLES
  nodes,       \* BranchingScope.nodes : HashMap<usize, Node>
  current,     \* BranchingScope.current : the id allocator
  current_id,  \* Interpreter.current_id
  stack,       \* the active interpret_scope_block_stmt / with_branching frames
  signal,      \* the Err(..) travelling up the evaluator's Result channel
  result,      \* the value of the call expression that has just completed
  pc,          \* "run", "done" (Ok), "failed" (Err reached main), "panic"
  released,    \* history: the ids that were passed to release
  role,        \* history: what each allocated id was branched for
  last,        \* history: the frame operation or arena call of the last step
  program,     \* the statements main.rs hands to interpret_stmts, and how far it got
  stdout,      \* Interpreter.stdout : the lines written so far
  trace,       \* history: the expressions interpret_expr was entered for, in order
  scanner,     \* the Scanner of scan/scanner.rs and the Result of scan_tokens
  parser       \* the LoxParser of parse/parser.rs and the Result of parse

vars == <<nodes, current, current_id, stack, signal, result, pc, released, role, last,
          program, stdout, trace, scanner, parser>>

----------------------------------------------------------------------------
(* Bounds *)

MaxId == 4        \* ids the allocator may hand out
MaxDepth == 2     \* nested blocks and calls in progress
MaxArenaId == 3   \* ids the allocator may hand out under SpecArena
Nums == {1}       \* the number literals a program uses

\* usize::MAX, what a release build's `*ref_count -= 1` leaves at zero; every
\* real count is >= 0, so -1 stands for it.
UsizeWrapped == -1

VarNames == {"a"}   \* the variables a program declares and assigns
FnNames == {"f"}    \* the functions a program declares
Keys == VarNames \cup FnNames
\* the other names of the programs under SpecRun
RunNames == {"make", "inc", "g"}
AllKeys == Keys \cup {"clock"} \cup RunNames
ParamLists == {<<>>, <<"a">>}
Ids == 0..(MaxId + MaxArenaId)

----------------------------------------------------------------------------
(* Values: src/interpret/value.rs, src/interpret/lox_fn.rs *)

\* One record shape for every Value.  A Number is the f64 n / den (see F64
\* below), a String holds its characters in str, a user function its body.
MkValue(tag, n, name, params, ctx) ==
  [tag |-> tag, n |-> n, den |-> 1, str |-> <<>>, name |-> name, params |-> params,
   body |-> <<>>, context_id |-> ctx]

Nil == MkValue("Nil", 0, "", <<>>, 0)
Number(n) == MkValue("Number", n, "", <<>>, 0)
LoxFn(name, params, ctx) == MkValue("Lox", 0, name, params, ctx)
NativeFn(name) == MkValue("Native", 0, name, <<>>, 0)
\* A key the HashMap does not hold, and the absence of a call result.
Unbound == MkValue("Unbound", 0, "", <<>>, 0)

IsCallable(v) == v.tag \in {"Lox", "Native"}

----------------------------------------------------------------------------
(* Scope and Node: branching_scope.rs 6-16 *)

EmptyScope == [k \in AllKeys |-> Unbound]
ScopeWith(key, v) == [EmptyScope EXCEPT ![key] = v]
ContainsKey(data, key) == data[key].tag # "Unbound"

Base == [kind |-> "Base", data |-> EmptyScope, parent |-> 0, ref_count |-> 0]
Child(data, parent, rc) == [kind |-> "Child", data |-> data, parent |-> parent, ref_count |-> rc]

IsChild(ns, id) == id \in DOMAIN ns /\ ns[id].kind = "Child"
ChildIds(ns) == {id \in DOMAIN ns : ns[id].kind = "Child"}

\* HashMap::insert / HashMap::remove on the arena
Insert(ns, id, node) == [i \in DOMAIN ns \cup {id} |-> IF i = id THEN node ELSE ns[i]]
Remove(ns, id) == [i \in DOMAIN ns \ {id} |-> ns[i]]

\* The result of an arena call that may panic (an unwrap of None, unreachable!()).
Ok(ns) == [ok |-> TRUE, nodes |-> ns]
Panicked(ns) == [ok |-> FALSE, nodes |-> ns]

\* add_ref_to_node
AddRefToNode(ns, id) ==
  IF id \notin DOMAIN ns THEN Panicked(ns)
  ELSE IF ns[id].kind = "Base" THEN Ok(ns)
  ELSE Ok([ns EXCEPT ![id].ref_count = @ + 1])

\* remove_ref_from_node: the outcomes of `*ref_count -= 1`.  At zero a debug
\* build panics on the overflow and a release build wraps.
RemoveRefFromNode(ns, id) ==
  IF id \notin DOMAIN ns THEN {Panicked(ns)}
  ELSE IF ns[id].kind = "Base" THEN {Ok(ns)}
  ELSE IF ns[id].ref_count = 0
       THEN {Panicked(ns), Ok([ns EXCEPT ![id].ref_count = UsizeWrapped])}
  ELSE {Ok([ns EXCEPT ![id].ref_count = @ - 1])}

\* branch that forgets add_ref_to_node(src)
BranchWithoutAddRef(ns, cur, src, value) ==
  [ok |-> src \in DOMAIN ns, nodes |-> Insert(ns, cur + 1, Child(value, src, 0)),
   current |-> cur + 1, id |-> cur + 1]

\* branch that hands out the smallest id no node of the arena has
BranchReusingIds(ns, cur, src, value) ==
  LET id == CHOOSE i \in 1..(cur + 1) : i \notin DOMAIN ns /\ \A j \in 1..(i - 1) : j \in DOMAIN ns
      inserted == Insert(ns, id, Child(value, src, 0))
      r == AddRefToNode(inserted, src)
  IN [ok |-> r.ok, nodes |-> r.nodes, current |-> IF id > cur THEN id ELSE cur, id |-> id]

\* branch: the new node is inserted before the parent's count is touched
Branch(ns, cur, src, value) ==
  LET id == cur + 1
      inserted == Insert(ns, id, Child(value, src, 0))
      r == AddRefToNode(inserted, src)
  IN [ok |-> r.ok, nodes |-> r.nodes, current |-> id, id |-> id]

\* release that removes the node and leaves the parent's count alone
ReleaseWithoutRemoveRef(ns, id) ==
  IF ~IsChild(ns, id) THEN {[ok |-> FALSE, nodes |-> ns, parent |-> 0]}
  ELSE IF ns[id].ref_count = 0
       THEN {[ok |-> TRUE, nodes |-> Remove(ns, id), parent |-> ns[id].parent]}
  ELSE {[ok |-> TRUE, nodes |-> ns, parent |-> ns[id].parent]}

\* release that removes the node whatever its count
ReleaseAlwaysRemoves(ns, id) ==
  IF ~IsChild(ns, id) THEN {[ok |-> FALSE, nodes |-> ns, parent |-> 0]}
  ELSE {[ok |-> r.ok, nodes |-> r.nodes, parent |-> ns[id].parent] :
           r \in RemoveRefFromNode(Remove(ns, id), ns[id].parent)}

\* release that also removes the parent once its count is back at zero
ReleaseCascading(ns, id) ==
  IF ~IsChild(ns, id) THEN {[ok |-> FALSE, nodes |-> ns, parent |-> 0]}
  ELSE IF ns[id].ref_count = 0
       THEN {[ok |-> r.ok,
              nodes |-> IF r.ok /\ IsChild(r.nodes, ns[id].parent)
                             /\ r.nodes[ns[id].parent].ref_count = 0
                        THEN Remove(r.nodes, ns[id].parent) ELSE r.nodes,
              parent |-> ns[id].parent] :
                r \in RemoveRefFromNode(Remove(ns, id), ns[id].parent)}
  ELSE {[ok |-> TRUE, nodes |-> ns, parent |-> ns[id].parent]}

\* release: the set of outcomes (one, unless the parent's count underflows)
Release(ns, id) ==
  IF ~IsChild(ns, id) THEN {[ok |-> FALSE, nodes |-> ns, parent |-> 0]}
  ELSE LET ref_count == ns[id].ref_count
           parent == ns[id].parent
       IN IF ref_count = 0
          THEN {[ok |-> r.ok, nodes |-> r.nodes, parent |-> parent] :
                  r \in RemoveRefFromNode(Remove(ns, id), parent)}
          ELSE {[ok |-> TRUE, nodes |-> ns, parent |-> parent]}

\* scope / scope_mut: the data of a Child, None for Root or an unknown id
HasScope(ns, id) == IsChild(ns, id)

\* find_first_with_key that does not stop at the first scope binding key
RECURSIVE FindOutermostWithKey(_, _, _)
FindOutermostWithKey(ns, id, key) ==
  IF id \notin DOMAIN ns THEN -1
  ELSE IF ns[id].kind = "Base" THEN -1
  ELSE LET up == FindOutermostWithKey(ns, ns[id].parent, key)
       IN IF up # -1 THEN up
          ELSE IF ContainsKey(ns[id].data, key) THEN id ELSE -1

\* find_first_with_key: the id of the first scope from id toward Root that
\* binds key, or -1 for None (an unknown id on the way is None too: the `?`).
RECURSIVE FindFirstWithKey(_, _, _)
FindFirstWithKey(ns, id, key) ==
  IF id \notin DOMAIN ns THEN -1
  ELSE IF ns[id].kind = "Base" THEN -1
  ELSE IF ContainsKey(ns[id].data, key) THEN id
  ELSE FindFirstWithKey(ns, ns[id].parent, key)

\* find_first_with_key_mut: the same walk, written as a loop over ids
RECURSIVE FindFirstWithKeyMut(_, _, _)
FindFirstWithKeyMut(ns, id, key) ==
  IF id \notin DOMAIN ns THEN -1
  ELSE IF ns[id].kind = "Base" THEN -1
  ELSE IF ContainsKey(ns[id].data, key) THEN id
  ELSE FindFirstWithKeyMut(ns, ns[id].parent, key)

\* get: Unbound stands for None
Get(ns, id, key) ==
  LET s == FindFirstWithKey(ns, id, key)
  IN IF s = -1 THEN Unbound ELSE ns[s].data[key]

\* define that updates the nearest binding of key on the chain when there is one
DefineAtNearestBinding(ns, id, key, value) ==
  LET s == FindFirstWithKeyMut(ns, id, key)
  IN IF ~HasScope(ns, id) THEN ns
     ELSE IF s = -1 THEN [ns EXCEPT ![id].data[key] = value]
     ELSE [ns EXCEPT ![s].data[key] = value]

\* define that keeps the binding a scope already has (entry(key).or_insert(value))
DefineKeepsExisting(ns, id, key, value) ==
  IF HasScope(ns, id) /\ ~ContainsKey(ns[id].data, key)
  THEN [ns EXCEPT ![id].data[key] = value]
  ELSE ns

\* define: a no-op when scope_mut(id) is None
Define(ns, id, key, value) ==
  IF HasScope(ns, id) THEN [ns EXCEPT ![id].data[key] = value] ELSE ns

\* assign that declares the variable in the scope at id when no scope binds it
AssignOrDefine(ns, id, key, value) ==
  LET s == FindFirstWithKeyMut(ns, id, key)
  IN IF s = -1 THEN [ok |-> HasScope(ns, id), nodes |-> Define(ns, id, key, value)]
     ELSE [ok |-> TRUE, nodes |-> [ns EXCEPT ![s].data[key] = value]]

\* assign: ok = FALSE stands for None
Assign(ns, id, key, value) ==
  LET s == FindFirstWithKeyMut(ns, id, key)
  IN IF s = -1 THEN [ok |-> FALSE, nodes |-> ns]
     ELSE [ok |-> TRUE, nodes |-> [ns EXCEPT ![s].data[key] = value]]

----------------------------------------------------------------------------
(* The evaluator: src/interpret/interpreter.rs *)

NoSignal == [kind |-> "none", err |-> "", value |-> Unbound]
ErrorSignal(e) == [kind |-> "Error", err |-> e, value |-> Unbound]
ReturnSignal(v) == [kind |-> "Return", err |-> "", value |-> v]

Frame(kind, id, old) == [kind |-> kind, id |-> id, old |-> old]
Top == stack[Len(stack)]
Pop(s) == SubSeq(s, 1, Len(s) - 1)

NoOp == [op |-> "stmt", id |-> 0, old |-> 0, via |-> ""]
Op(op, id, old, via) == [op |-> op, id |-> id, old |-> old, via |-> via]

\* No statement list: the state is not that of a `run` of main.rs
NoProgram == [stmts |-> <<>>, at |-> 0]

\* Scanner::new, with the reader over the source text: pos characters were
\* read from it, eof is the reader's flag (set by the read that finds no more
\* input).  peeked is the Option<char> as a sequence of at most one character.
\* starts and error_starts are history: for each token and for each error, the
\* index of its first character.
NewScanner(input) ==
  [input |-> input, pos |-> 0, eof |-> FALSE, tokens |-> <<>>, peeked |-> <<>>,
   current_line |-> 1, errors |-> <<>>, starts |-> <<>>, error_starts |-> <<>>,
   state |-> "scanning",
   returned |-> [ok |-> TRUE, tokens |-> <<>>, errors |-> <<>>]]
\* no scanner was made
NoScanner == [NewScanner(<<>>) EXCEPT !.state = "none"]

\* ParseError (parse_error.rs): the variant, its line and the pieces of its message
ParseError(name, line, message) == [name |-> name, line |-> line, message |-> message]
MalformedExpression(line, message) == ParseError("MalformedExpression", line, message)
UnexpectedEndOfFile == ParseError("UnexpectedEndOfFile", 0, <<>>)
NoParseError == ParseError("", 0, <<>>)

\* LoxParser::new with the statements parse has collected and what it returned
NewParser(tokens) ==
  [tokens |-> tokens, current_pos |-> 0, stmts |-> <<>>, state |-> "parsing",
   returned |-> [ok |-> TRUE, stmts |-> <<>>, err |-> NoParseError]]
\* no parser was made
NoParser == [NewParser(<<>>) EXCEPT !.state = "none"]

WithRole(r, id, what) == [i \in DOMAIN r \cup {id} |-> IF i = id THEN what ELSE r[i]]

\* Interpreter::new: the arena with Root, the globals scope branched from it
\* and `clock` defined there.
NewArena == Branch([i \in {0} |-> Base], 0, 0, EmptyScope)
Init ==
  /\ nodes = Define(NewArena.nodes, NewArena.id, "clock", NativeFn("clock"))
  /\ current = NewArena.current
  /\ current_id = NewArena.id
  /\ stack = <<>>
  /\ signal = NoSignal
  /\ result = Unbound
  /\ pc = "run"
  /\ released = {}
  /\ role = [i \in {NewArena.id} |-> "globals"]
  /\ last = NoOp
  /\ program = NoProgram
  /\ stdout = <<>>
  /\ trace = <<>>
  /\ scanner = NoScanner
  /\ parser = NoParser

\* A statement is being executed: no Err is on its way up.
Running == pc = "run" /\ signal.kind = "none"

\* What an expression without an error can evaluate to here: a literal, a
\* variable (interpret_expr 167-171), the call that has just returned.
ExprValues ==
  {Number(n) : n \in Nums}
  \cup {Get(nodes, current_id, k) : k \in {k \in AllKeys : Get(nodes, current_id, k) # Unbound}}
  \cup ({result} \ {Unbound})

ArgLists == {<<>>} \cup {<<v>> : v \in ExprValues}

\* Stmt::Var (interpret_stmt 65-68)
InterpretVar(name, value) ==
  /\ Running
  /\ nodes' = Define(nodes, current_id, name, value)
  /\ result' = Unbound
  /\ last' = NoOp
  /\ UNCHANGED <<current, current_id, stack, signal, pc, released, role>>
  /\ UNCHANGED <<program, stdout, trace, scanner, parser>>

\* Expr::Assign (interpret_expr 172-179) as an expression statement
InterpretAssign(name, value) ==
  /\ Running
  /\ LET r == Assign(nodes, current_id, name, value)
     IN /\ nodes' = r.nodes
        /\ signal' = IF r.ok THEN signal ELSE ErrorSignal("UndefinedVariable")
  /\ result' = Unbound
  /\ last' = NoOp
  /\ UNCHANGED <<current, current_id, stack, pc, released, role>>
  /\ UNCHANGED <<program, stdout, trace, scanner, parser>>

\* An expression that fails: a variable no scope on the chain binds
\* (interpret_expr 167-171), a division by zero (binary 214-217).
ExprErrors ==
  {"ZeroDivision"} \cup
  (IF \E k \in Keys : Get(nodes, current_id, k) = Unbound THEN {"UndefinedVariable"} ELSE {})

InterpretExprError(e) ==
  /\ Running
  /\ e \in ExprErrors
  /\ signal' = ErrorSignal(e)
  /\ result' = Unbound
  /\ last' = NoOp
  /\ UNCHANGED <<nodes, current, current_id, stack, pc, released, role>>
  /\ UNCHANGED <<program, stdout, trace, scanner, parser>>

\* Stmt::Return (interpret_return 149-152)
InterpretReturn(value) ==
  /\ Running
  /\ signal' = ReturnSignal(value)
  /\ result' = Unbound
  /\ last' = NoOp
  /\ UNCHANGED <<nodes, current, current_id, stack, pc, released, role>>
  /\ UNCHANGED <<program, stdout, trace, scanner, parser>>

\* interpret_scope_block_stmt 91-92: branch from the current scope, enter it
EnterScopeBlock ==
  /\ Running
  /\ Len(stack) < MaxDepth
  /\ current < MaxId
  /\ LET b == Branch(nodes, current, current_id, EmptyScope)
     IN /\ nodes' = b.nodes
        /\ current' = b.current
        /\ current_id' = b.id
        /\ pc' = IF b.ok THEN pc ELSE "panic"
        /\ stack' = Append(stack, Frame("block", b.id, current_id))
        /\ role' = WithRole(role, b.id, "block")
        /\ last' = Op("BlockEnter", b.id, current_id, "")
  /\ result' = Unbound
  /\ UNCHANGED <<signal, released>>
  /\ UNCHANGED <<program, stdout, trace, scanner, parser>>

\* the block's exit dropping release's return value
BlockExitKeepsCurrent(ns, cur_id) ==
  {[ok |-> r.ok, nodes |-> r.nodes, current_id |-> cur_id] : r \in Release(ns, cur_id)}

\* interpret_scope_block_stmt 94: current_id = release(current_id)
BlockExit(ns, cur_id) ==
  {[ok |-> r.ok, nodes |-> r.nodes, current_id |-> IF r.ok THEN r.parent ELSE cur_id] :
     r \in Release(ns, cur_id)}

\* interpret_scope_block_stmt 93-95, the inner statements returned Ok
ExitScopeBlock ==
  /\ Running
  /\ stack # <<>>
  /\ Top.kind = "block"
  /\ \E x \in BlockExit(nodes, current_id) :
       /\ nodes' = x.nodes
       /\ current_id' = x.current_id
       /\ pc' = IF x.ok THEN pc ELSE "panic"
  /\ released' = released \cup {current_id}
  /\ stack' = Pop(stack)
  /\ last' = Op("BlockExit", current_id, Top.old, "Normal")
  /\ result' = Unbound
  /\ UNCHANGED <<current, signal, role>>
  /\ UNCHANGED <<program, stdout, trace, scanner, parser>>

\* interpret_scope_block_stmt 93, the inner statements returned Err: the `?`
\* returns it at once, lines 94-95 are not run
UnwindScopeBlock ==
  /\ pc = "run"
  /\ signal.kind # "none"
  /\ stack # <<>>
  /\ Top.kind = "block"
  /\ stack' = Pop(stack)
  /\ last' = Op("BlockExit", Top.id, Top.old, signal.kind)
  /\ UNCHANGED <<nodes, current, current_id, signal, result, pc, released, role>>
  /\ UNCHANGED <<program, stdout, trace, scanner, parser>>

\* interpret_function_definition 129-147
InterpretFunctionDefinition(name, params) ==
  /\ Running
  /\ current < MaxId
  /\ LET b == Branch(nodes, current, current_id, EmptyScope)
         fun == LoxFn(name, params, b.id)
     IN /\ nodes' = Define(b.nodes, current_id, name, fun)
        /\ current' = b.current
        /\ pc' = IF b.ok THEN pc ELSE "panic"
        /\ role' = WithRole(role, b.id, "anchor")
        /\ last' = Op("FunctionDefinition", b.id, current_id, "")
  /\ result' = Unbound
  /\ UNCHANGED <<current_id, stack, signal, released>>
  /\ UNCHANGED <<program, stdout, trace, scanner, parser>>

\* with_branching 325-327 and LoxFn::call 113-116: branch the activation scope
\* from base_branch, make it current, define the parameters in it
RECURSIVE DefineParams(_, _, _, _)
DefineParams(ns, id, params, args) ==
  IF params = <<>> THEN ns
  ELSE DefineParams(Define(ns, id, Head(params), Head(args)), id, Tail(params), Tail(args))

\* with_branching that branches the activation scope from Root, not from
\* the scope the function captured
WithBranchingEnterFromRoot(ns, cur, base_branch, params, args) ==
  LET b == Branch(ns, cur, 0, EmptyScope)
  IN [ok |-> b.ok, nodes |-> DefineParams(b.nodes, b.id, params, args),
      current |-> b.current, id |-> b.id]

WithBranchingEnter(ns, cur, base_branch, params, args) ==
  LET b == Branch(ns, cur, base_branch, EmptyScope)
  IN [ok |-> b.ok, nodes |-> DefineParams(b.nodes, b.id, params, args),
      current |-> b.current, id |-> b.id]

\* interpret_call 276-297 with the callee a variable.  A native function runs
\* its implementation (NativeFn::call 50-57); a user function checks its arity
\* (LoxFn::call 103-110) and enters with_branching.
InterpretCall(name, args) ==
  /\ Running
  /\ args \in ArgLists
  /\ LET callee_value == Get(nodes, current_id, name)
         enters == callee_value.tag = "Lox" /\ Len(args) = Len(callee_value.params)
     IN /\ enters => (Len(stack) < MaxDepth /\ current < MaxId)
        /\ IF enters
           THEN LET e == WithBranchingEnter(nodes, current, callee_value.context_id,
                                            callee_value.params, args)
                IN /\ nodes' = e.nodes
                   /\ current' = e.current
                   /\ current_id' = e.id
                   /\ pc' = IF e.ok THEN pc ELSE "panic"
                   /\ stack' = Append(stack, Frame("call", e.id, current_id))
                   /\ role' = WithRole(role, e.id, "activation")
                   /\ last' = Op("CallEnter", e.id, current_id, "")
                   /\ result' = Unbound
                   /\ signal' = signal
           ELSE /\ signal' = CASE callee_value.tag = "Unbound" -> ErrorSignal("UndefinedVariable")
                               [] callee_value.tag = "Native" -> signal
                               [] callee_value.tag = "Lox" -> ErrorSignal("WrongNumberOfArguments")
                               [] OTHER -> ErrorSignal("NotAFunction")
                /\ \E n \in Nums :
                     result' = IF callee_value.tag = "Native" THEN Number(n) ELSE Unbound
                /\ last' = NoOp
                /\ UNCHANGED <<nodes, current, current_id, pc, stack, role>>
  /\ UNCHANGED released
  /\ UNCHANGED <<program, stdout, trace, scanner, parser>>

\* with_branching written like the block, `action(self)?` before the release
\* (the shape of LoxFn::call in value.rs 42-44)
WithBranchingExitOnOkOnly(ns, frame) ==
  IF signal.kind = "none"
  THEN {[ok |-> r.ok, nodes |-> r.nodes, current_id |-> frame.old] : r \in Release(ns, frame.id)}
  ELSE {[ok |-> TRUE, nodes |-> ns, current_id |-> current_id]}

\* with_branching that releases the scope the call was made from
WithBranchingExitReleasesOld(ns, frame) ==
  {[ok |-> r.ok, nodes |-> r.nodes, current_id |-> frame.old] : r \in Release(ns, frame.old)}

\* with_branching 329-330: release the activation scope, restore current_id
WithBranchingExit(ns, frame) ==
  {[ok |-> r.ok, nodes |-> r.nodes, current_id |-> frame.old] : r \in Release(ns, frame.id)}

\* LoxFn::call returning call_res as it is, Err(Return) included
CallResultPassesReturn(call_res) ==
  IF call_res.kind = "none" THEN [signal |-> NoSignal, result |-> Nil]
  ELSE [signal |-> call_res, result |-> Unbound]

\* LoxFn::call 118-123: what the call hands to its caller for the body's Result
CallResult(call_res) ==
  CASE call_res.kind = "Return" -> [signal |-> NoSignal, result |-> call_res.value]
    [] call_res.kind = "none" -> [signal |-> NoSignal, result |-> Nil]
    [] OTHER -> [signal |-> call_res, result |-> Unbound]

\* The body returned (Ok, Err(Return) or another Err): LoxFn::call 118-123
\* inside with_branching 328-331
LoxFnCallExit ==
  /\ pc = "run"
  /\ stack # <<>>
  /\ Top.kind = "call"
  /\ \E x \in WithBranchingExit(nodes, Top) :
       /\ nodes' = x.nodes
       /\ current_id' = x.current_id
       /\ pc' = IF x.ok THEN pc ELSE "panic"
  /\ released' = released \cup {Top.id}
  /\ signal' = CallResult(signal).signal
  /\ result' = CallResult(signal).result
  /\ stack' = Pop(stack)
  /\ last' = Op("CallExit", Top.id, Top.old, signal.kind)
  /\ UNCHANGED <<current, role>>
  /\ UNCHANGED <<program, stdout, trace, scanner, parser>>

\* interpret_stmts returned to main.rs interpret (150-155): Ok or Err
Finish ==
  /\ pc = "run"
  /\ stack = <<>>
  /\ pc' = IF signal.kind = "none" THEN "done" ELSE "failed"
  /\ result' = Unbound
  /\ last' = NoOp
  /\ UNCHANGED <<nodes, current, current_id, stack, signal, released, role>>
  /\ UNCHANGED <<program, stdout, trace, scanner, parser>>

Next ==
  \/ \E name \in VarNames, value \in ExprValues : InterpretVar(name, value)
  \/ \E name \in VarNames, value \in ExprValues : InterpretAssign(name, value)
  \/ \E e \in {"ZeroDivision", "UndefinedVariable"} : InterpretExprError(e)
  \/ \E value \in ExprValues : InterpretReturn(value)
  \/ EnterScopeBlock
  \/ ExitScopeBlock
  \/ UnwindScopeBlock
  \/ \E name \in FnNames, params \in ParamLists : InterpretFunctionDefinition(name, params)
  \/ \E name \in AllKeys, args \in ArgLists : InterpretCall(name, args)
  \/ LoxFnCallExit
  \/ Finish

Spec == Init /\ [][Next]_vars

TypeOK ==
  /\ pc \in {"run", "done", "failed", "panic"}
  /\ current \in 0..MaxId
  /\ current_id \in Ids
  /\ DOMAIN nodes \subseteq Ids
  /\ Len(stack) <= MaxDepth

NoPanic == pc # "panic"

----------------------------------------------------------------------------
(* The arena driven through its public methods, as in the unit tests of    *)
(* branching_scope.rs (156-351).  Calls the code documents as programming  *)
(* errors (release of Root or of an unknown id, branch from an unknown id) *)
(* are not made.                                                           *)

\* The values the client binds each key to
ArenaValues(key) == IF key \in VarNames THEN {Number(1), Number(2)} ELSE {Number(1)}
\* empty_scope() and scope_with(key, value) of the tests
ArenaScopes == {EmptyScope} \cup {ScopeWith(k, Number(1)) : k \in Keys}

\* BranchingScope::empty
InitArena ==
  /\ nodes = [i \in {0} |-> Base]
  /\ current = 0
  /\ current_id = 0
  /\ stack = <<>>
  /\ signal = NoSignal
  /\ result = Unbound
  /\ pc = "run"
  /\ released = {}
  /\ role = [i \in {} |-> ""]
  /\ last = NoOp
  /\ program = NoProgram
  /\ stdout = <<>>
  /\ trace = <<>>
  /\ scanner = NoScanner
  /\ parser = NoParser

ArenaBranch(src, value) ==
  /\ pc = "run"
  /\ src \in DOMAIN nodes
  /\ current < MaxArenaId
  /\ LET b == Branch(nodes, current, src, value)
     IN /\ nodes' = b.nodes
        /\ current' = b.current
        /\ pc' = IF b.ok THEN pc ELSE "panic"
        /\ role' = WithRole(role, b.id, "client")
        /\ last' = NoOp
  /\ UNCHANGED <<current_id, stack, signal, result, released>>
  /\ UNCHANGED <<program, stdout, trace, scanner, parser>>

ArenaRelease(id) ==
  /\ pc = "run"
  /\ id \in ChildIds(nodes)
  /\ \E r \in Release(nodes, id) :
       /\ nodes' = r.nodes
       /\ pc' = IF r.ok THEN pc ELSE "panic"
       /\ last' = Op("release", id, r.parent, IF id \in DOMAIN r.nodes THEN "kept" ELSE "removed")
  /\ released' = released \cup {id}
  /\ UNCHANGED <<current, current_id, stack, signal, result, role>>
  /\ UNCHANGED <<program, stdout, trace, scanner, parser>>

ArenaDefine(id, key, value) ==
  /\ pc = "run"
  /\ id \in DOMAIN nodes
  /\ nodes' = Define(nodes, id, key, value)
  /\ last' = NoOp
  /\ UNCHANGED <<current, current_id, stack, signal, result, pc, released, role>>
  /\ UNCHANGED <<program, stdout, trace, scanner, parser>>

ArenaAssign(id, key, value) ==
  /\ pc = "run"
  /\ id \in DOMAIN nodes
  /\ LET r == Assign(nodes, id, key, value)
     IN /\ nodes' = r.nodes
        /\ last' = NoOp
  /\ UNCHANGED <<current, current_id, stack, signal, result, pc, released, role>>
  /\ UNCHANGED <<program, stdout, trace, scanner, parser>>

NextArena ==
  \/ \E src \in Ids, value \in ArenaScopes : ArenaBranch(src, value)
  \/ \E id \in Ids : ArenaRelease(id)
  \/ \E id \in Ids, key \in Keys : \E value \in ArenaValues(key) : ArenaDefine(id, key, value)
  \/ \E id \in Ids, key \in Keys : \E value \in ArenaValues(key) : ArenaAssign(id, key, value)

SpecArena == InitArena /\ [][NextArena]_vars

----------------------------------------------------------------------------
(* f64, the numbers of Value::Number.  A finite number is the fraction      *)
(* n / den in lowest terms with den > 0; den = 0 is for the values that are *)
(* not finite: n = 1 is inf, n = -1 is -inf, n = 0 is NaN.  The arithmetic  *)
(* is exact: rounding and the sign of zero are left out.                    *)

F64(n, den) == [n |-> n, den |-> den]
Inf == F64(1, 0)
NaN == F64(0, 0)
Zero == F64(0, 1)
IsNaN(x) == x.den = 0 /\ x.n = 0
IsFinite(x) == x.den > 0

Abs(i) == IF i < 0 THEN -i ELSE i
Sign(i) == IF i < 0 THEN -1 ELSE IF i > 0 THEN 1 ELSE 0
RECURSIVE Gcd(_, _)
Gcd(a, b) == IF b = 0 THEN a ELSE Gcd(b, a % b)
\* n / d in lowest terms, for d > 0
Ratio(n, d) == LET g == Gcd(Abs(n), d) IN F64(n \div g, d \div g)

\* -value (unary 192)
F64Neg(x) == F64(-x.n, x.den)
\* n1 + n2 (binary 211)
F64Add(x, y) ==
  IF IsNaN(x) \/ IsNaN(y) THEN NaN
  ELSE IF ~IsFinite(x) THEN (IF ~IsFinite(y) /\ y.n # x.n THEN NaN ELSE x)
  ELSE IF ~IsFinite(y) THEN y
  ELSE Ratio(x.n * y.den + y.n * x.den, x.den * y.den)
\* n1 - n2 (binary 212)
F64Sub(x, y) == F64Add(x, F64Neg(y))
\* n1 * n2 (binary 213); inf * 0 is NaN
F64Mul(x, y) ==
  IF IsNaN(x) \/ IsNaN(y) THEN NaN
  ELSE IF ~IsFinite(x) \/ ~IsFinite(y) THEN F64(Sign(x.n) * Sign(y.n), 0)
  ELSE Ratio(x.n * y.n, x.den * y.den)
\* n1 / n2 (binary 218)
F64Div(x, y) ==
  IF IsNaN(x) \/ IsNaN(y) THEN NaN
  ELSE IF ~IsFinite(x)
       THEN (IF ~IsFinite(y) THEN NaN ELSE F64(IF y.n < 0 THEN -x.n ELSE x.n, 0))
  ELSE IF ~IsFinite(y) THEN Zero
  ELSE IF y.n = 0 THEN F64(Sign(x.n), 0)
  ELSE Ratio(x.n * y.den * Sign(y.n), x.den * Abs(y.n))
\* n1 == n2 on f64: a NaN equals nothing (are_equal 301, binary 215)
F64Eq(x, y) == ~IsNaN(x) /\ ~IsNaN(y) /\ x = y
\* n1 < n2 (binary 220)
F64Lt(x, y) ==
  /\ ~IsNaN(x) /\ ~IsNaN(y)
  /\ IF ~IsFinite(x) /\ ~IsFinite(y) THEN x.n < y.n ELSE x.n * y.den < y.n * x.den
\* n1 <= n2 (binary 221)
F64Le(x, y) == F64Lt(x, y) \/ F64Eq(x, y)

\* The decimal digits format!("{value}") writes for an f64
RECURSIVE Digits(_)
Digits(i) == IF i < 10 THEN <<ToString(i)>> ELSE Digits(i \div 10) \o <<ToString(i % 10)>>
RECURSIVE FractionDigits(_, _, _)
FractionDigits(rem, den, fuel) ==
  IF rem = 0 \/ fuel = 0 THEN <<>>
  ELSE <<ToString((rem * 10) \div den)>> \o FractionDigits((rem * 10) % den, den, fuel - 1)
F64ToString(x) ==
  IF IsNaN(x) THEN <<"N", "a", "N">>
  ELSE IF ~IsFinite(x) THEN (IF x.n < 0 THEN <<"-">> ELSE <<>>) \o <<"i", "n", "f">>
  ELSE (IF x.n < 0 THEN <<"-">> ELSE <<>>)
       \o Digits(Abs(x.n) \div x.den)
       \o (IF Abs(x.n) % x.den = 0 THEN <<>>
           ELSE <<".">> \o FractionDigits(Abs(x.n) % x.den, x.den, 17))

----------------------------------------------------------------------------
(* Values of the evaluator: value.rs 6-13, lox_fn.rs 8-12, 79-85 *)

NumberValue(x) == [Number(x.n) EXCEPT !.den = x.den]
F64Of(v) == F64(v.n, v.den)
Boolean(b) == MkValue("Boolean", IF b THEN 1 ELSE 0, "", <<>>, 0)
String(chars) == [MkValue("String", 0, "", <<>>, 0) EXCEPT !.str = chars]
\* Value::fun: the function value with its body
LoxFnValue(name, params, body, ctx) == [LoxFn(name, params, ctx) EXCEPT !.body = body]

\* Value::type_name
TypeName(v) ==
  CASE v.tag = "Number" -> "Number"
    [] v.tag = "Nil" -> "nil"
    [] v.tag = "Boolean" -> "Boolean"
    [] v.tag = "String" -> "String"
    [] OTHER -> "function"

\* Value::to_string, LoxFn::to_string, NativeFn::to_string: the characters of
\* the text (a name is one piece)
ToStringValue(v) ==
  CASE v.tag = "Number" -> F64ToString(F64Of(v))
    [] v.tag = "Nil" -> <<"n", "i", "l">>
    [] v.tag = "Boolean" ->
         IF v.n = 1 THEN <<"t", "r", "u", "e">> ELSE <<"f", "a", "l", "s", "e">>
    [] v.tag = "String" -> v.str
    [] v.tag = "Lox" -> <<"<", "f", "n", " ", v.name, ">">>
    [] OTHER -> <<"<", "n", "a", "t", "i", "v", "e", "f", "n", " ", v.name, ">">>

\* is_falsey with zero and the empty string falsey as well
IsFalseyOrEmpty(value) ==
  \/ value.tag = "Nil"
  \/ (value.tag = "Boolean" /\ value.n = 0)
  \/ (value.tag = "Number" /\ value.n = 0)
  \/ (value.tag = "String" /\ value.str = <<>>)

\* is_falsey / is_truthy
IsFalsey(value) == value.tag = "Nil" \/ (value.tag = "Boolean" /\ value.n = 0)
IsTruthy(value) == ~IsFalsey(value)

\* are_equal with `val1 == val2` in every arm: the derived PartialEq compares
\* the bits of a number
AreEqualStructural(val1, val2) == val1 = val2

\* are_equal: numbers by f64 equality, booleans and strings by content, and
\* the derived PartialEq for the rest (a user function by name, params, body
\* and context_id, a native function by name; values of two variants differ)
AreEqual(val1, val2) ==
  IF val1.tag = "Number" /\ val2.tag = "Number" THEN F64Eq(F64Of(val1), F64Of(val2))
  ELSE IF val1.tag = "Boolean" /\ val2.tag = "Boolean" THEN val1.n = val2.n
  ELSE IF val1.tag = "String" /\ val2.tag = "String" THEN val1.str = val2.str
  ELSE val1 = val2

----------------------------------------------------------------------------
(* The syntax tree: parse/expr.rs, parse/stmt.rs, scan/token.rs *)

\* Token::new; text is the String of a Number, String or Identifier kind
Token(kind, line) == [kind |-> kind, line |-> line, text |-> <<>>]

\* TokenKind::symbol, for the operators
Symbol(kind) ==
  CASE kind = "Minus" -> "-"
    [] kind = "Plus" -> "+"
    [] kind = "Slash" -> "/"
    [] kind = "Star" -> "*"
    [] kind = "Bang" -> "!"
    [] kind = "BangEqual" -> "!="
    [] kind = "EqualEqual" -> "=="
    [] kind = "Greater" -> ">"
    [] kind = "GreaterEqual" -> ">="
    [] kind = "Less" -> "<"
    [] kind = "LessEqual" -> "<="
    [] kind = "And" -> "and"
    [] kind = "Or" -> "or"
    [] kind = "LeftParen" -> "("
    [] kind = "RightParen" -> ")"
    [] kind = "LeftBrace" -> "{"
    [] kind = "RightBrace" -> "}"
    [] kind = "Comma" -> ","
    [] kind = "Dot" -> "."
    [] kind = "Semicolon" -> ";"
    [] kind = "Equal" -> "="
    [] kind = "Class" -> "class"
    [] kind = "Else" -> "else"
    [] kind = "False" -> "false"
    [] kind = "Fun" -> "fun"
    [] kind = "For" -> "for"
    [] kind = "If" -> "if"
    [] kind = "Nil" -> "nil"
    [] kind = "Print" -> "print"
    [] kind = "Return" -> "return"
    [] kind = "Super" -> "super"
    [] kind = "This" -> "this"
    [] kind = "True" -> "true"
    [] kind = "Var" -> "var"
    [] kind = "While" -> "while"
    [] kind = "Eof" -> ""

ExprLiteralNumber(x) == [kind |-> "LiteralNumber", num |-> x]
ExprLiteralBool(b) == [kind |-> "LiteralBool", bool |-> b]
ExprLiteralString(chars) == [kind |-> "LiteralString", str |-> chars]
ExprLiteralNil == [kind |-> "LiteralNil"]
ExprBinary(left, operator, right) ==
  [kind |-> "Binary", left |-> left, operator |-> operator, right |-> right]
ExprLogical(left, operator, right) ==
  [kind |-> "Logical", left |-> left, operator |-> operator, right |-> right]
ExprUnary(operator, right) == [kind |-> "Unary", operator |-> operator, right |-> right]
ExprCall(line, callee, args) ==
  [kind |-> "Call", line |-> line, callee |-> callee, args |-> args]
ExprGroup(expression) == [kind |-> "Group", expression |-> expression]
ExprVariable(name, line) == [kind |-> "Variable", name |-> name, line |-> line]
ExprAssign(name, value, line) ==
  [kind |-> "Assign", name |-> name, value |-> value, line |-> line]

StmtExpr(expr) == [kind |-> "Expr", expr |-> expr]
StmtPrint(expr) == [kind |-> "Print", expr |-> expr]
StmtVar(name, expr, line) == [kind |-> "Var", name |-> name, expr |-> expr, line |-> line]
StmtScopeBlock(stmts) == [kind |-> "ScopeBlock", stmts |-> stmts]
\* els is the sequence of zero or one statement (Option<Box<Stmt>>)
StmtIf(condition, then, els) ==
  [kind |-> "If", condition |-> condition, then |-> then, els |-> els]
StmtWhile(condition, body) == [kind |-> "While", condition |-> condition, loop |-> body]
StmtFunction(name, params, body) ==
  [kind |-> "Function", name |-> name, params |-> params, body |-> body]
StmtReturn(expr) == [kind |-> "Return", expr |-> expr]

----------------------------------------------------------------------------
(* The evaluator as the code runs it: interpret_stmts, interpret_stmt and   *)
(* interpret_expr applied to a syntax tree and an interpreter.  The result  *)
(* is the Result the code returns, with the interpreter it leaves behind.   *)

\* The Interpreter: env (nodes, current), current_id and stdout; the reading
\* of the system clock; whether `-=` panics on overflow (a debug build) or
\* wraps; the history of the expressions entered.
Interpreter(ns, cur, cur_id, out, tr, now, checks) ==
  [nodes |-> ns, current |-> cur, current_id |-> cur_id, stdout |-> out, trace |-> tr,
   now |-> now, overflow_checks |-> checks]

\* RuntimeError (error.rs 4-21): the variant, its line and its other fields
RuntimeError(name, line, info) == [name |-> name, line |-> line, info |-> info]
NoError == RuntimeError("", 0, <<>>)

\* Ok(value), Err(error), Err(RuntimeError::Return(value)), and a panic
OkRes(value, st) == [ok |-> TRUE, value |-> value, err |-> NoError, st |-> st]
ErrRes(error, st) == [ok |-> FALSE, value |-> Unbound, err |-> error, st |-> st]
ReturnRes(value, st) ==
  [ok |-> FALSE, value |-> value, err |-> RuntimeError("Return", 0, <<>>), st |-> st]
PanicRes(st) == ErrRes(RuntimeError("panic", 0, <<>>), st)
IsPanic(r) == r.err.name = "panic"

\* The Result in the form the frames of Spec carry it
SignalOf(r) ==
  IF r.ok THEN NoSignal
  ELSE IF r.err.name = "Return" THEN ReturnSignal(r.value)
  ELSE ErrorSignal(r.err.name)

\* The outcome of an arena call for this build
Outcome(outcomes, st) ==
  IF Cardinality(outcomes) = 1 THEN CHOOSE x \in outcomes : TRUE
  ELSE CHOOSE x \in outcomes : x.ok = ~st.overflow_checks

\* `expr?`: an Err returns at once, an Ok goes on with the rest
Try(r, Rest(_)) == IF r.ok THEN Rest(r) ELSE r
\* `let x = value;` followed by the rest
With(value, Rest(_)) == Rest(value)

RECURSIVE InterpretStmts(_, _)
RECURSIVE InterpretStmt(_, _)
RECURSIVE InterpretExpr(_, _)

\* unary 189-202
Unary(operator, right, st) ==
  Try(InterpretExpr(right, st), LAMBDA r :
    IF r.value.tag = "Number" /\ operator.kind = "Minus"
    THEN OkRes(NumberValue(F64Neg(F64Of(r.value))), r.st)
    ELSE IF operator.kind = "Bang" THEN OkRes(Boolean(~IsTruthy(r.value)), r.st)
    ELSE IF operator.kind = "Minus"
         THEN ErrRes(RuntimeError("NotANumber", operator.line, <<TypeName(r.value)>>), r.st)
    ELSE ErrRes(RuntimeError("InvalidExpression", 0, <<>>), r.st))

\* the Slash arm without its zero check
DivideUnchecked(n1, n2, line, st) == OkRes(NumberValue(F64Div(n1, n2)), st)

\* binary 214-219: the Slash arm
Divide(n1, n2, line, st) ==
  IF F64Eq(n2, Zero) THEN ErrRes(RuntimeError("ZeroDivision", line, <<>>), st)
  ELSE OkRes(NumberValue(F64Div(n1, n2)), st)

\* binary 208-245: the match on the operator and the two values, arm by arm
BinaryValues(operator, left, right, st) ==
  LET kind == operator.kind
      numbers == left.tag = "Number" /\ right.tag = "Number"
      n1 == F64Of(left)
      n2 == F64Of(right)
  IN IF kind = "EqualEqual" THEN OkRes(Boolean(AreEqual(left, right)), st)
     ELSE IF kind = "BangEqual" THEN OkRes(Boolean(~AreEqual(left, right)), st)
     ELSE IF kind = "Plus" /\ numbers THEN OkRes(NumberValue(F64Add(n1, n2)), st)
     ELSE IF kind = "Minus" /\ numbers THEN OkRes(NumberValue(F64Sub(n1, n2)), st)
     ELSE IF kind = "Star" /\ numbers THEN OkRes(NumberValue(F64Mul(n1, n2)), st)
     ELSE IF kind = "Slash" /\ numbers THEN Divide(n1, n2, operator.line, st)
     ELSE IF kind = "Less" /\ numbers THEN OkRes(Boolean(F64Lt(n1, n2)), st)
     ELSE IF kind = "LessEqual" /\ numbers THEN OkRes(Boolean(F64Le(n1, n2)), st)
     ELSE IF kind = "Greater" /\ numbers THEN OkRes(Boolean(F64Lt(n2, n1)), st)
     ELSE IF kind = "GreaterEqual" /\ numbers THEN OkRes(Boolean(F64Le(n2, n1)), st)
     ELSE IF kind = "Plus" /\ left.tag = "String" /\ right.tag = "String"
          THEN OkRes(String(left.str \o right.str), st)
     ELSE IF kind \in {"Greater", "GreaterEqual", "Less", "LessEqual", "Plus", "Star", "Slash"}
          THEN ErrRes(RuntimeError("WrongBinaryOperationType", operator.line,
                                   <<Symbol(kind), TypeName(left), TypeName(right)>>), st)
     ELSE ErrRes(RuntimeError("InvalidExpression", 0, <<>>), st)

\* binary 204-207: both operands first, left then right
Binary(left, operator, right, st) ==
  Try(InterpretExpr(left, st), LAMBDA l :
    Try(InterpretExpr(right, l.st), LAMBDA r :
      BinaryValues(operator, l.value, r.value, r.st)))

\* logical that evaluates both operands before it chooses
LogicalEager(left, operator, right, st) ==
  Try(InterpretExpr(left, st), LAMBDA l :
    Try(InterpretExpr(right, l.st), LAMBDA r :
      IF operator.kind = "And"
      THEN (IF IsTruthy(l.value) THEN r ELSE OkRes(l.value, r.st))
      ELSE IF operator.kind = "Or"
           THEN (IF IsTruthy(l.value) THEN OkRes(l.value, r.st) ELSE r)
      ELSE ErrRes(RuntimeError("InvalidExpression", 0, <<>>), r.st)))

\* logical 248-274
Logical(left, operator, right, st) ==
  Try(InterpretExpr(left, st), LAMBDA l :
    IF operator.kind = "And"
    THEN (IF IsTruthy(l.value) THEN InterpretExpr(right, l.st) ELSE l)
    ELSE IF operator.kind = "Or"
         THEN (IF IsTruthy(l.value) THEN l ELSE InterpretExpr(right, l.st))
    ELSE ErrRes(RuntimeError("InvalidExpression", 0, <<>>), l.st))

\* interpret_call 283-286: the arguments in order, stopping at the first Err;
\* values holds the Vec<Value> collected
ArgsRes(ok, values, err, st) == [ok |-> ok, values |-> values, err |-> err, st |-> st]
RECURSIVE InterpretArgs(_, _)
InterpretArgs(args, st) ==
  IF args = <<>> THEN ArgsRes(TRUE, <<>>, NoError, st)
  ELSE With(InterpretExpr(Head(args), st), LAMBDA r :
         IF ~r.ok THEN ArgsRes(FALSE, <<>>, r.err, r.st)
         ELSE With(InterpretArgs(Tail(args), r.st), LAMBDA rest :
                [rest EXCEPT !.values = <<r.value>> \o @]))

\* NativeFn::call 50-57 with the implementation of clock (Interpreter::new
\* 30-36): the arguments are handed over and ignored
NativeFnCall(fun, args, line, st) == OkRes(Number(st.now), st)

\* with_branching 328-331 around LoxFn::call 118-123: the body's Result, the
\* release of the activation scope, current_id back at the call site
LoxFnReturn(call_res, new_branch, old, st) ==
  IF IsPanic(call_res) THEN call_res
  ELSE With(Outcome(WithBranchingExit(call_res.st.nodes, Frame("call", new_branch, old)), st),
            LAMBDA x :
         With([call_res.st EXCEPT !.nodes = x.nodes, !.current_id = x.current_id],
              LAMBDA after :
           IF ~x.ok THEN PanicRes(after)
           ELSE With(CallResult(SignalOf(call_res)), LAMBDA res :
                  IF res.signal.kind = "none" THEN OkRes(res.result, after)
                  ELSE [call_res EXCEPT !.st = after])))

\* LoxFn::call that branches the activation scope from the caller's scope
LoxFnCallFromCaller(fun, args, line, st) ==
  IF Len(args) # Len(fun.params)
  THEN ErrRes(RuntimeError("WrongNumberOfArguments", line,
                           <<fun.name, ToString(Len(fun.params)), ToString(Len(args))>>), st)
  ELSE With(WithBranchingEnter(st.nodes, st.current, st.current_id, fun.params, args),
            LAMBDA e :
         With([st EXCEPT !.nodes = e.nodes, !.current = e.current, !.current_id = e.id],
              LAMBDA inside :
           IF ~e.ok THEN PanicRes(inside)
           ELSE LoxFnReturn(InterpretStmts(fun.body, inside), e.id, st.current_id, st)))

\* LoxFn::call 97-125 inside with_branching 320-332
LoxFnCall(fun, args, line, st) ==
  IF Len(args) # Len(fun.params)
  THEN ErrRes(RuntimeError("WrongNumberOfArguments", line,
                           <<fun.name, ToString(Len(fun.params)), ToString(Len(args))>>), st)
  ELSE With(WithBranchingEnter(st.nodes, st.current, fun.context_id, fun.params, args),
            LAMBDA e :
         With([st EXCEPT !.nodes = e.nodes, !.current = e.current, !.current_id = e.id],
              LAMBDA inside :
           IF ~e.ok THEN PanicRes(inside)
           ELSE LoxFnReturn(InterpretStmts(fun.body, inside), e.id, st.current_id, st)))

\* Callable::call 15-25
CallableCall(callable, args, line, st) ==
  IF callable.tag = "Lox" THEN LoxFnCall(callable, args, line, st)
  ELSE NativeFnCall(callable, args, line, st)

\* interpret_call 276-297
InterpretCallExpr(callee, args, line, st) ==
  Try(InterpretExpr(callee, st), LAMBDA callee_value :
    With(InterpretArgs(args, callee_value.st), LAMBDA arg_values :
      IF ~arg_values.ok THEN ErrRes(arg_values.err, arg_values.st)
      ELSE IF ~IsCallable(callee_value.value)
           THEN ErrRes(RuntimeError("NotAFunction", line, <<TypeName(callee_value.value)>>),
                       arg_values.st)
      ELSE CallableCall(callee_value.value, arg_values.values, line, arg_values.st)))

\* interpret_expr 172-179: Expr::Assign
InterpretAssignExpr(name, value_expr, line, st) ==
  Try(InterpretExpr(value_expr, st), LAMBDA value :
    With(Assign(value.st.nodes, value.st.current_id, name, value.value), LAMBDA a :
      IF ~a.ok THEN ErrRes(RuntimeError("UndefinedVariable", line, <<name>>), value.st)
      ELSE OkRes(value.value, [value.st EXCEPT !.nodes = a.nodes])))

\* interpret_expr 167-171: Expr::Variable
InterpretVariable(name, line, st) ==
  With(Get(st.nodes, st.current_id, name), LAMBDA v :
    IF v = Unbound THEN ErrRes(RuntimeError("UndefinedVariable", line, <<name>>), st)
    ELSE OkRes(v, st))

\* interpret_expr 154-187, the arms once the expression is noted as entered
InterpretExprKind(expr, st) ==
  CASE expr.kind = "LiteralNumber" -> OkRes(NumberValue(expr.num), st)
    [] expr.kind = "LiteralNil" -> OkRes(Nil, st)
    [] expr.kind = "LiteralBool" -> OkRes(Boolean(expr.bool), st)
    [] expr.kind = "Unary" -> Unary(expr.operator, expr.right, st)
    [] expr.kind = "LiteralString" -> OkRes(String(expr.str), st)
    [] expr.kind = "Group" -> InterpretExpr(expr.expression, st)
    [] expr.kind = "Binary" -> Binary(expr.left, expr.operator, expr.right, st)
    [] expr.kind = "Variable" -> InterpretVariable(expr.name, expr.line, st)
    [] expr.kind = "Assign" -> InterpretAssignExpr(expr.name, expr.value, expr.line, st)
    [] expr.kind = "Logical" -> Logical(expr.left, expr.operator, expr.right, st)
    [] expr.kind = "Call" -> InterpretCallExpr(expr.callee, expr.args, expr.line, st)

\* interpret_expr 154-187
InterpretExpr(expr, st) == InterpretExprKind(expr, [st EXCEPT !.trace = Append(@, expr)])

\* interpret_scope_block_stmt 93-95: the `?` on the statements, then the
\* release into current_id
ScopeBlockExit(r, st) ==
  Try(r, LAMBDA done :
    With(Outcome(BlockExit(done.st.nodes, done.st.current_id), st), LAMBDA x :
      With([done.st EXCEPT !.nodes = x.nodes, !.current_id = x.current_id], LAMBDA after :
        IF ~x.ok THEN PanicRes(after) ELSE OkRes(Nil, after))))

\* interpret_scope_block_stmt 90-96
InterpretScopeBlockStmt(stmts, st) ==
  With(Branch(st.nodes, st.current, st.current_id, EmptyScope), LAMBDA b :
    With([st EXCEPT !.nodes = b.nodes, !.current = b.current, !.current_id = b.id],
         LAMBDA inside :
      IF ~b.ok THEN PanicRes(inside)
      ELSE ScopeBlockExit(InterpretStmts(stmts, inside), st)))

\* interpret_if 105-120
InterpretIf(condition, then, els, st) ==
  Try(InterpretExpr(condition, st), LAMBDA value :
    IF IsTruthy(value.value) THEN InterpretStmts(<<then>>, value.st)
    ELSE InterpretStmts(els, value.st))

\* interpret_while 122-127
RECURSIVE InterpretWhile(_, _, _)
InterpretWhile(condition, body, st) ==
  Try(InterpretExpr(condition, st), LAMBDA value :
    IF ~IsTruthy(value.value) THEN OkRes(Nil, value.st)
    ELSE Try(InterpretStmt(body, value.st), LAMBDA r : InterpretWhile(condition, body, r.st)))

\* interpret_function_definition 129-147
FunctionDefinition(name, params, body, st) ==
  With(Branch(st.nodes, st.current, st.current_id, EmptyScope), LAMBDA b :
    With([st EXCEPT !.nodes = Define(b.nodes, st.current_id, name,
                                     LoxFnValue(name, params, body, b.id)),
                    !.current = b.current], LAMBDA after :
      IF ~b.ok THEN PanicRes(after) ELSE OkRes(Nil, after)))

\* interpret_stmt 55-88 (Ok(()) is Ok(Nil) here)
InterpretStmt(stmt, st) ==
  CASE stmt.kind = "Expr" ->
         Try(InterpretExpr(stmt.expr, st), LAMBDA value : OkRes(Nil, value.st))
    [] stmt.kind = "Print" ->
         Try(InterpretExpr(stmt.expr, st), LAMBDA value :
           OkRes(Nil, [value.st EXCEPT !.stdout = Append(@, ToStringValue(value.value))]))
    [] stmt.kind = "Var" ->
         Try(InterpretExpr(stmt.expr, st), LAMBDA value :
           OkRes(Nil, [value.st EXCEPT
                         !.nodes = Define(@, value.st.current_id, stmt.name, value.value)]))
    [] stmt.kind = "ScopeBlock" -> InterpretScopeBlockStmt(stmt.stmts, st)
    [] stmt.kind = "If" ->
         Try(InterpretIf(stmt.condition, stmt.then, stmt.els, st), LAMBDA r : OkRes(Nil, r.st))
    [] stmt.kind = "While" -> InterpretWhile(stmt.condition, stmt.loop, st)
    [] stmt.kind = "Function" -> FunctionDefinition(stmt.name, stmt.params, stmt.body, st)
    [] stmt.kind = "Return" ->
         Try(InterpretExpr(stmt.expr, st), LAMBDA value : ReturnRes(value.value, value.st))

\* interpret_stmts without the `?`: the statements after an Err still run
InterpretStmtsKeepGoing(stmts, st) ==
  IF stmts = <<>> THEN OkRes(Nil, st)
  ELSE With(InterpretStmt(Head(stmts), st), LAMBDA r :
         With(InterpretStmts(Tail(stmts), r.st), LAMBDA rest :
           IF r.ok THEN rest ELSE [r EXCEPT !.st = rest.st]))

\* interpret_stmts 48-53
InterpretStmts(stmts, st) ==
  IF stmts = <<>> THEN OkRes(Nil, st)
  ELSE Try(InterpretStmt(Head(stmts), st), LAMBDA r : InterpretStmts(Tail(stmts), r.st))

----------------------------------------------------------------------------
(* The `run` command (main.rs 135-155): a program handed to a new          *)
(* Interpreter.  One step is one turn of the loop of interpret_stmts over   *)
(* the program's statements.                                               *)

MaxCalls == 2     \* calls of the returned closures in a counter program
MaxPrints == 2    \* statements that print before the statement that fails

Lit(n) == ExprLiteralNumber(F64(n, 1))
\* a number literal of more digits than an f64 holds: parse() gives inf
Huge == ExprLiteralNumber(Inf)
Var(name) == ExprVariable(name, 1)
ZeroDiv == ExprBinary(Lit(1), Token("Slash", 5), Lit(0))
NaNExpr == ExprBinary(Huge, Token("Minus", 1), Huge)

\* fun make() { var a = 0; fun inc() { a = a + 1; return a; } return inc; }
MakeDecl ==
  StmtFunction("make", <<>>,
    <<StmtVar("a", Lit(0), 1),
      StmtFunction("inc", <<>>,
        <<StmtExpr(ExprAssign("a", ExprBinary(Var("a"), Token("Plus", 1), Lit(1)), 1)),
          StmtReturn(Var("a"))>>),
      StmtReturn(Var("inc"))>>)

\* make, two counters f and g made by it, and a print of a call for each name
\* of calls
CallSeqs == UNION {[1..n -> {"f", "g"}] : n \in 0..MaxCalls}
CounterProgram(calls) ==
  <<MakeDecl,
    StmtVar("f", ExprCall(1, Var("make"), <<>>), 1),
    StmtVar("g", ExprCall(1, Var("make"), <<>>), 1)>>
  \o [i \in 1..Len(calls) |-> StmtPrint(ExprCall(1, Var(calls[i]), <<>>))]

\* var a = init; fun f(a) { return a; } var g = e;
Inits ==
  {Lit(0), Lit(1), ExprLiteralString(<<>>), ExprLiteralString(<<"a">>), ExprLiteralNil, NaNExpr}
Tests ==
  {ExprLogical(ExprLiteralNil, Token("And", 2), ExprAssign("a", Lit(2), 1)),
   ExprLogical(Lit(1), Token("Or", 2), ZeroDiv),
   ExprLogical(Var("a"), Token("And", 2), ExprAssign("a", Lit(2), 1)),
   ExprBinary(Var("a"), Token("Slash", 2), Lit(0)),
   ExprBinary(Var("a"), Token("Minus", 2), Lit(1)),
   ExprBinary(Var("a"), Token("Less", 2), Lit(1)),
   ExprBinary(Var("a"), Token("EqualEqual", 2), Var("a")),
   ExprBinary(Var("f"), Token("BangEqual", 2), Var("clock")),
   ExprUnary(Token("Bang", 2), ExprUnary(Token("Bang", 2), Var("a"))),
   ExprCall(3, Var("clock"), <<Lit(1)>>),
   ExprCall(3, Var("f"), <<Lit(1), Lit(2)>>),
   ExprCall(3, Var("f"), <<ExprAssign("a", Lit(2), 1)>>),
   ExprCall(3, Var("a"), <<ExprAssign("a", Lit(2), 1)>>),
   ExprCall(3, ExprLiteralNil, <<ZeroDiv>>)}
ExprProgram(init, e) ==
  <<StmtVar("a", init, 1),
    StmtFunction("f", <<"a">>, <<StmtReturn(Var("a"))>>),
    StmtVar("g", e, 1)>>

\* k statements `print 1;`, then `print 1/0;`, then `print 2;`: at the top
\* level, or as the body of a block, of an if, of a while or of a function
\* that is called, with a `print 2;` after it
Wraps == {"top", "block", "if", "while", "call"}
FailingStmts(k) ==
  [i \in 1..k |-> StmtPrint(Lit(1))] \o <<StmtPrint(ZeroDiv), StmtPrint(Lit(2))>>
ErrorProgram(k, wrap) ==
  CASE wrap = "top" -> FailingStmts(k)
    [] wrap = "block" -> <<StmtScopeBlock(FailingStmts(k)), StmtPrint(Lit(2))>>
    [] wrap = "if" ->
         <<StmtIf(ExprLiteralBool(TRUE), StmtScopeBlock(FailingStmts(k)), <<>>),
           StmtPrint(Lit(2))>>
    [] wrap = "while" ->
         <<StmtWhile(ExprLiteralBool(TRUE), StmtScopeBlock(FailingStmts(k))),
           StmtPrint(Lit(2))>>
    [] wrap = "call" ->
         <<StmtFunction("f", <<>>, FailingStmts(k)),
           StmtExpr(ExprCall(1, Var("f"), <<>>)),
           StmtPrint(Lit(2))>>

\* Programs in which a function body reads `a`, after an optional `var a = 0;`:
\*   block      fun f() { return a; } { var a = 1; print f(); }
\*   param      fun inc() { return a; } fun make(a) { return inc(); }
\*              print make(1);
\*   recursion  fun f(a) { if (a < depth) f(a + 1); print a; } f(0);
\*              and `print a;` when there is a global a
ScopeKinds == {"block", "param", "recursion"}
GlobalA(global) == IF global THEN <<StmtVar("a", Lit(0), 1)>> ELSE <<>>
ScopeProgram(kind, global, depth) ==
  GlobalA(global) \o
  CASE kind = "block" ->
         <<StmtFunction("f", <<>>, <<StmtReturn(Var("a"))>>),
           StmtScopeBlock(<<StmtVar("a", Lit(1), 1),
                            StmtPrint(ExprCall(1, Var("f"), <<>>))>>)>>
    [] kind = "param" ->
         <<StmtFunction("inc", <<>>, <<StmtReturn(Var("a"))>>),
           StmtFunction("make", <<"a">>, <<StmtReturn(ExprCall(1, Var("inc"), <<>>))>>),
           StmtPrint(ExprCall(1, Var("make"), <<Lit(1)>>))>>
    [] kind = "recursion" ->
         <<StmtFunction("f", <<"a">>,
             <<StmtIf(ExprBinary(Var("a"), Token("Less", 1), Lit(depth)),
                      StmtExpr(ExprCall(1, Var("f"),
                                        <<ExprBinary(Var("a"), Token("Plus", 1), Lit(1))>>)),
                      <<>>),
               StmtPrint(Var("a"))>>),
           StmtExpr(ExprCall(1, Var("f"), <<Lit(0)>>))>>
         \o (IF global THEN <<StmtPrint(Var("a"))>> ELSE <<>>)

Programs ==
  {CounterProgram(calls) : calls \in CallSeqs}
  \cup {ExprProgram(init, e) : init \in Inits, e \in Tests}
  \cup {ErrorProgram(k, wrap) : k \in 0..MaxPrints, wrap \in Wraps}
  \cup {ScopeProgram(kind, global, depth) :
           kind \in ScopeKinds, global \in BOOLEAN, depth \in 1..MaxCalls}

\* main.rs interpret 150-152: Interpreter::new and the program
InitRun ==
  /\ nodes = Define(NewArena.nodes, NewArena.id, "clock", NativeFn("clock"))
  /\ current = NewArena.current
  /\ current_id = NewArena.id
  /\ stack = <<>>
  /\ signal = NoSignal
  /\ result = Unbound
  /\ pc = "run"
  /\ released = {}
  /\ role = [i \in {NewArena.id} |-> "globals"]
  /\ last = NoOp
  /\ \E stmts \in Programs : program = [stmts |-> stmts, at |-> 1]
  /\ stdout = <<>>
  /\ trace = <<>>
  /\ scanner = NoScanner
  /\ parser = NoParser

\* interpret_stmts 49-51 for the next statement of the program: Ok goes on,
\* an Err ends the run (main.rs 153)
RunStmt ==
  /\ pc = "run"
  /\ program.at \in 1..Len(program.stmts)
  /\ \E now \in Nums, checks \in BOOLEAN :
       \E r \in {InterpretStmt(program.stmts[program.at],
                               Interpreter(nodes, current, current_id, stdout, <<>>, now, checks))} :
          /\ nodes' = r.st.nodes
          /\ current' = r.st.current
          /\ current_id' = r.st.current_id
          /\ stdout' = r.st.stdout
          /\ trace' = r.st.trace
          /\ signal' = SignalOf(r)
          /\ pc' = IF r.ok THEN "run" ELSE IF IsPanic(r) THEN "panic" ELSE "failed"
  /\ program' = [program EXCEPT !.at = @ + 1]
  /\ UNCHANGED <<stack, result, released, role, last, scanner, parser>>

\* interpret_stmts 52 and main.rs 154: every statement returned Ok
RunEnd ==
  /\ pc = "run"
  /\ program.stmts # <<>>
  /\ program.at = Len(program.stmts) + 1
  /\ pc' = "done"
  /\ UNCHANGED <<nodes, current, current_id, stack, signal, result, released, role, last,
                 program, stdout, trace, scanner, parser>>

NextRun ==
  \/ RunStmt
  \/ RunEnd

SpecRun == InitRun /\ [][NextRun]_vars

----------------------------------------------------------------------------
(* The scanner: scan/scanner.rs.  A source text is a sequence of            *)
(* characters, a String is the sequence of its characters.                  *)

\* Token::new for the kinds that carry a text: Number, String, Identifier
LexToken(kind, text, line) == [Token(kind, line) EXCEPT !.text = text]

DigitChars == {"0", "1", "2", "3", "4", "5", "6", "7", "8", "9"}
LetterChars ==
  {"a", "b", "c", "d", "e", "f", "g", "h", "i", "j", "k", "l", "m", "n", "o", "p", "q",
   "r", "s", "t", "u", "v", "w", "x", "y", "z", "A", "B", "C", "D", "E", "F", "G", "H",
   "I", "J", "K", "L", "M", "N", "O", "P", "Q", "R", "S", "T", "U", "V", "W", "X", "Y", "Z"}
\* char::is_digit(10)
IsDigit(c) == c \in DigitChars
\* char_is_alphanumeric
CharIsAlphanumeric(c) == c \in LetterChars \/ c \in DigitChars \/ c = "_"

\* reserved_words: the kind of a reserved word, Identifier for another text
ReservedWords(buf) ==
  CASE buf = <<"a", "n", "d">> -> "And"
    [] buf = <<"c", "l", "a", "s", "s">> -> "Class"
    [] buf = <<"e", "l", "s", "e">> -> "Else"
    [] buf = <<"f", "a", "l", "s", "e">> -> "False"
    [] buf = <<"f", "u", "n">> -> "Fun"
    [] buf = <<"f", "o", "r">> -> "For"
    [] buf = <<"i", "f">> -> "If"
    [] buf = <<"n", "i", "l">> -> "Nil"
    [] buf = <<"o", "r">> -> "Or"
    [] buf = <<"p", "r", "i", "n", "t">> -> "Print"
    [] buf = <<"r", "e", "t", "u", "r", "n">> -> "Return"
    [] buf = <<"s", "u", "p", "e", "r">> -> "Super"
    [] buf = <<"t", "h", "i", "s">> -> "This"
    [] buf = <<"t", "r", "u", "e">> -> "True"
    [] buf = <<"v", "a", "r">> -> "Var"
    [] buf = <<"w", "h", "i", "l", "e">> -> "While"
    [] OTHER -> "Identifier"

\* An Option<char>, or an Option<String>, together with the scanner after the call
Taken(sc, c) == [sc |-> sc, c |-> c]

\* self.input.next_char() as take_char matches it: Some(res) for a character,
\* None for anything else
NextChar(sc) ==
  IF sc.eof THEN Taken(sc, <<>>)
  ELSE IF sc.pos < Len(sc.input)
       THEN Taken([sc EXCEPT !.pos = @ + 1], <<sc.input[sc.pos + 1]>>)
  ELSE Taken([sc EXCEPT !.eof = TRUE], <<>>)

\* take_char
TakeChar(sc) ==
  With(IF sc.peeked # <<>> THEN Taken([sc EXCEPT !.peeked = <<>>], sc.peeked)
       ELSE NextChar(sc), LAMBDA t :
    IF t.c = <<"\n">> THEN [t EXCEPT !.sc.current_line = @ + 1] ELSE t)

\* peek_char
PeekChar(sc) ==
  IF sc.peeked # <<>> THEN Taken(sc, sc.peeked)
  ELSE With(TakeChar(sc), LAMBDA t :
         IF t.c = <<>> THEN t ELSE [t EXCEPT !.sc.peeked = t.c])

\* push_token_at, push_token_current_line
PushTokenAt(sc, kind, text, line_number) ==
  [sc EXCEPT !.tokens = Append(@, LexToken(kind, text, line_number))]
PushTokenCurrentLine(sc, kind, text) == PushTokenAt(sc, kind, text, sc.current_line)

\* take_following_digits, take_following_alphanumeric: the scanner and the buffer
Buffered(sc, buf) == [sc |-> sc, buf |-> buf]
RECURSIVE TakeFollowingDigits(_, _)
TakeFollowingDigits(sc, buf) ==
  With(PeekChar(sc), LAMBDA p :
    IF p.c # <<>> /\ IsDigit(p.c[1])
    THEN TakeFollowingDigits(TakeChar(p.sc).sc, buf \o p.c)
    ELSE Buffered(p.sc, buf))
RECURSIVE TakeFollowingAlphanumeric(_, _)
TakeFollowingAlphanumeric(sc, buf) ==
  With(PeekChar(sc), LAMBDA p :
    IF p.c # <<>> /\ CharIsAlphanumeric(p.c[1])
    THEN TakeFollowingAlphanumeric(TakeChar(p.sc).sc, buf \o p.c)
    ELSE Buffered(p.sc, buf))

\* take_chars_until: Some(buf) once the limit was taken, None at the end of input
Until(sc, some, buf) == [sc |-> sc, some |-> some, buf |-> buf]
RECURSIVE TakeCharsUntil(_, _, _)
TakeCharsUntil(sc, limit, buf) ==
  With(TakeChar(sc), LAMBDA t :
    IF t.c = <<>> THEN Until(t.sc, FALSE, buf)
    ELSE IF t.c[1] = limit THEN Until(t.sc, TRUE, buf)
    ELSE TakeCharsUntil(t.sc, limit, buf \o t.c))

\* scan_slash_or_comment
ScanSlashOrComment(sc) ==
  With(PeekChar(sc), LAMBDA next :
    IF next.c = <<"/">> THEN TakeCharsUntil(next.sc, "\n", <<>>).sc
    ELSE PushTokenCurrentLine(next.sc, "Slash", <<>>))

\* scan_unexpected_character
ScanUnexpectedCharacter(sc, a_char) ==
  [sc EXCEPT !.errors = Append(@, <<"[line ", ToString(sc.current_line),
                                    "] Error: Unexpected character: ", a_char>>)]

\* scan_identifier
ScanIdentifier(sc, a_char) ==
  With(TakeFollowingAlphanumeric(sc, <<a_char>>), LAMBDA b :
    IF ReservedWords(b.buf) = "Identifier"
    THEN PushTokenCurrentLine(b.sc, "Identifier", b.buf)
    ELSE PushTokenCurrentLine(b.sc, ReservedWords(b.buf), <<>>))

\* scan_string
ScanString(sc) ==
  With(TakeCharsUntil(sc, "\"", <<>>), LAMBDA content :
    IF content.some THEN PushTokenAt(content.sc, "String", content.buf, sc.current_line)
    ELSE [content.sc EXCEPT !.errors =
            Append(@, <<"[line ", ToString(sc.current_line), "] Error: Unterminated string.">>)])

\* scan_number
ScanNumber(sc, a_char) ==
  With(TakeFollowingDigits(sc, <<a_char>>), LAMBDA d :
    With(PeekChar(d.sc), LAMBDA p :
      IF p.c = <<".">>
      THEN With(TakeFollowingDigits(TakeChar(p.sc).sc, d.buf \o <<".">>), LAMBDA f :
             PushTokenCurrentLine(f.sc, "Number", f.buf))
      ELSE PushTokenCurrentLine(p.sc, "Number", d.buf)))

\* scan_maybe_two_chars
ScanMaybeTwoChars(sc, token1, token2) ==
  With(PeekChar(sc), LAMBDA p :
    IF p.c = <<"=">> THEN PushTokenCurrentLine(TakeChar(p.sc).sc, token2, <<>>)
    ELSE PushTokenCurrentLine(p.sc, token1, <<>>))

\* scan_char
ScanChar(sc, a_char) ==
  CASE a_char = "(" -> PushTokenCurrentLine(sc, "LeftParen", <<>>)
    [] a_char = ")" -> PushTokenCurrentLine(sc, "RightParen", <<>>)
    [] a_char = "{" -> PushTokenCurrentLine(sc, "LeftBrace", <<>>)
    [] a_char = "}" -> PushTokenCurrentLine(sc, "RightBrace", <<>>)
    [] a_char = "," -> PushTokenCurrentLine(sc, "Comma", <<>>)
    [] a_char = "." -> PushTokenCurrentLine(sc, "Dot", <<>>)
    [] a_char = "-" -> PushTokenCurrentLine(sc, "Minus", <<>>)
    [] a_char = "+" -> PushTokenCurrentLine(sc, "Plus", <<>>)
    [] a_char = ";" -> PushTokenCurrentLine(sc, "Semicolon", <<>>)
    [] a_char = "/" -> ScanSlashOrComment(sc)
    [] a_char = "*" -> PushTokenCurrentLine(sc, "Star", <<>>)
    [] a_char = "!" -> ScanMaybeTwoChars(sc, "Bang", "BangEqual")
    [] a_char = "=" -> ScanMaybeTwoChars(sc, "Equal", "EqualEqual")
    [] a_char = ">" -> ScanMaybeTwoChars(sc, "Greater", "GreaterEqual")
    [] a_char = "<" -> ScanMaybeTwoChars(sc, "Less", "LessEqual")
    [] a_char = "\"" -> ScanString(sc)
    [] a_char \in {" ", "\n", "\r", "\t"} -> sc
    [] OTHER ->
         IF IsDigit(a_char) THEN ScanNumber(sc, a_char)
         ELSE IF CharIsAlphanumeric(a_char) THEN ScanIdentifier(sc, a_char)
         ELSE ScanUnexpectedCharacter(sc, a_char)

\* The starts of the tokens and of the errors once the character at index
\* start was scanned
NoteStarts(before, after, start) ==
  [after EXCEPT !.starts = IF Len(after.tokens) > Len(before.tokens)
                           THEN Append(@, start) ELSE @,
                !.error_starts = IF Len(after.errors) > Len(before.errors)
                                 THEN Append(@, start) ELSE @]

\* scan_tokens 48-53: one turn of the loop
ScanTurn(sc) ==
  With(TakeChar(sc), LAMBDA next_char :
    IF next_char.c # <<>>
    THEN NoteStarts(sc, ScanChar(next_char.sc, next_char.c[1]), sc.pos - Len(sc.peeked) + 1)
    ELSE next_char.sc)

\* scan_tokens 57-61: Err(errors) when there is an error, Ok(tokens) otherwise
ScanReturn(sc) ==
  IF Len(sc.errors) > 0 THEN [ok |-> FALSE, tokens |-> <<>>, errors |-> sc.errors]
  ELSE [ok |-> TRUE, tokens |-> sc.tokens, errors |-> <<>>]

MaxSourceLen == 3   \* characters of a source text
\* The characters of the source texts: a digit, a letter, the dot, the
\* characters whose token depends on the next one, the quote, a new line, a
\* one-character token and a character that is no token
SourceChars == {"1", "a", ".", "=", "!", "/", "\"", "\n", "(", "@"}
Sources == UNION {[1..n -> SourceChars] : n \in 0..MaxSourceLen}

\* Scanner::new on a source text
InitScan ==
  /\ nodes = Define(NewArena.nodes, NewArena.id, "clock", NativeFn("clock"))
  /\ current = NewArena.current
  /\ current_id = NewArena.id
  /\ stack = <<>>
  /\ signal = NoSignal
  /\ result = Unbound
  /\ pc = "run"
  /\ released = {}
  /\ role = [i \in {NewArena.id} |-> "globals"]
  /\ last = NoOp
  /\ program = NoProgram
  /\ stdout = <<>>
  /\ trace = <<>>
  /\ \E input \in Sources : scanner = NewScanner(input)
  /\ parser = NoParser

\* scan_tokens 48-53: a turn of `while !self.eof()`
ScanStep ==
  /\ scanner.state = "scanning"
  /\ ~scanner.eof
  /\ scanner' = ScanTurn(scanner)
  /\ UNCHANGED <<nodes, current, current_id, stack, signal, result, pc, released, role, last,
                 program, stdout, trace, parser>>

\* scan_tokens 55-61: the Eof token and the Result
ScanFinish ==
  /\ scanner.state = "scanning"
  /\ scanner.eof
  /\ \E done \in {NoteStarts(scanner, PushTokenCurrentLine(scanner, "Eof", <<>>),
                             Len(scanner.input) + 1)} :
       scanner' = [done EXCEPT !.state = "scanned", !.returned = ScanReturn(done)]
  /\ UNCHANGED <<nodes, current, current_id, stack, signal, result, pc, released, role, last,
                 program, stdout, trace, parser>>

NextScan ==
  \/ ScanStep
  \/ ScanFinish

SpecScan == InitScan /\ [][NextScan]_vars

----------------------------------------------------------------------------
(* The parser: parse/parser.rs.  A LoxParser is its tokens and current_pos; *)
(* a parsing function gives the Result and the parser it leaves behind.     *)

\* Token::symbol as the pieces of its text
TokenSymbol(token) ==
  IF token.kind \in {"Number", "String", "Identifier"} THEN token.text
  ELSE <<Symbol(token.kind)>>

\* LoxParser::new
LoxParser(tokens) == [tokens |-> tokens, current_pos |-> 0]
\* Ok(node) and Err(err) of a parsing function, with the parser after it
POk(node, p) == [ok |-> TRUE, node |-> node, err |-> NoParseError, p |-> p]
PErr(err, p) == [ok |-> FALSE, node |-> <<>>, err |-> err, p |-> p]

\* inc, peek (an Option as a sequence of at most one token), peek_kind
\* ("None" for None), is_at_end
Inc(p) == [p EXCEPT !.current_pos = @ + 1]
Peek(p) == IF p.current_pos < Len(p.tokens) THEN <<p.tokens[p.current_pos + 1]>> ELSE <<>>
PeekKind(p) == IF Peek(p) = <<>> THEN "None" ELSE Peek(p)[1].kind
IsAtEnd(p) == PeekKind(p) = "Eof"

\* advance_if_match: the parser after it (it moved when the kind is an option)
AdvanceIfMatch(p, options) == IF PeekKind(p) \in options THEN Inc(p) ELSE p

\* next_token: the position moves even when there is no token
NextToken(p) ==
  IF Peek(p) = <<>> THEN PErr(UnexpectedEndOfFile, Inc(p)) ELSE POk(Peek(p)[1], Inc(p))

\* consume
Consume(p, kind) ==
  Try(NextToken(p), LAMBDA next :
    IF next.node.kind = kind THEN next
    ELSE PErr(MalformedExpression(next.node.line,
                <<"Expected ", Symbol(kind), ", got ">> \o TokenSymbol(next.node)), next.p))

\* repr.parse::<f64>() for the digits, with at most one dot, of a Number token
DigitValue(c) == CHOOSE d \in 0..9 : ToString(d) = c
RECURSIVE DecimalValue(_)
DecimalValue(digits) ==
  IF digits = <<>> THEN 0
  ELSE DecimalValue(SubSeq(digits, 1, Len(digits) - 1)) * 10 + DigitValue(digits[Len(digits)])
ParseF64(repr) ==
  Ratio(DecimalValue(SelectSeq(repr, LAMBDA c : c # ".")),
        10 ^ Cardinality({i \in 1..Len(repr) : \E j \in 1..(i - 1) : repr[j] = "."}))

RECURSIVE ParseExpression(_)
RECURSIVE ParseDeclaration(_)
RECURSIVE ParseStatement(_)
RECURSIVE ParseAssignment(_)
RECURSIVE ParseUnary(_)
RECURSIVE ParseAnd(_)
RECURSIVE ParseEquality(_)
RECURSIVE ParseComparison(_)
RECURSIVE ParseTerm(_)
RECURSIVE ParseFactor(_)

\* primary
ParsePrimary(p) ==
  Try(NextToken(p), LAMBDA t :
    With(t.node, LAMBDA token :
      CASE token.kind = "Number" -> POk(ExprLiteralNumber(ParseF64(token.text)), t.p)
        [] token.kind = "True" -> POk(ExprLiteralBool(TRUE), t.p)
        [] token.kind = "False" -> POk(ExprLiteralBool(FALSE), t.p)
        [] token.kind = "String" -> POk(ExprLiteralString(token.text), t.p)
        [] token.kind = "Nil" -> POk(ExprLiteralNil, t.p)
        [] token.kind = "Identifier" -> POk(ExprVariable(token.text, token.line), t.p)
        [] token.kind = "LeftParen" ->
             Try(ParseExpression(t.p), LAMBDA res :
               With(Consume(res.p, "RightParen"), LAMBDA closing :
                 IF closing.ok THEN POk(ExprGroup(res.node), closing.p)
                 ELSE PErr(MalformedExpression(token.line, <<"Missing closing parenthesis">>),
                           closing.p)))
        [] token.kind = "Eof" ->
             PErr(MalformedExpression(token.line, <<"Unexpected end of file">>), t.p)
        [] OTHER ->
             PErr(MalformedExpression(token.line,
                    <<"Expected expression got ", "BACKTICK">> \o TokenSymbol(token)
                    \o <<"BACKTICK">>), t.p)))

\* call 366-373: the loop over the arguments, up to the closing parenthesis
RECURSIVE CallArgs(_, _)
CallArgs(p, args) ==
  IF PeekKind(p) = "RightParen" THEN POk(args, Inc(p))
  ELSE Try(ParseExpression(p), LAMBDA e :
         CallArgs(AdvanceIfMatch(e.p, {"Comma"}), Append(args, e.node)))

\* call 357-379: `while let Some(LeftParen) = self.peek_kind()`
RECURSIVE CallLoop(_, _)
CallLoop(expr, p) ==
  IF PeekKind(p) # "LeftParen" THEN POk(expr, p)
  ELSE Try(Consume(p, "LeftParen"), LAMBDA paren :
         Try(IF PeekKind(paren.p) = "RightParen" THEN POk(<<>>, Inc(paren.p))
             ELSE CallArgs(paren.p, <<>>), LAMBDA args :
           CallLoop(ExprCall(paren.node.line, expr, args.node), args.p)))

\* call
ParseCall(p) == Try(ParsePrimary(p), LAMBDA expr : CallLoop(expr.node, expr.p))

\* unary
ParseUnary(p) ==
  IF PeekKind(p) \in {"Minus", "Bang"}
  THEN Try(ParseUnary(Inc(p)), LAMBDA expr : POk(ExprUnary(Peek(p)[1], expr.node), expr.p))
  ELSE ParseCall(p)

\* The loop `while let Some(operator) = self.advance_if_match(..)` of or, and,
\* equality, comparison, term and factor: the operators of each, the function
\* that parses its operands, the expression it builds
OperatorsOf(level) ==
  CASE level = "or" -> {"Or"}
    [] level = "and" -> {"And"}
    [] level = "equality" -> {"EqualEqual", "BangEqual"}
    [] level = "comparison" -> {"Less", "LessEqual", "Greater", "GreaterEqual"}
    [] level = "term" -> {"Plus", "Minus"}
    [] level = "factor" -> {"Star", "Slash"}
OperandOf(level, p) ==
  CASE level = "or" -> ParseAnd(p)
    [] level = "and" -> ParseEquality(p)
    [] level = "equality" -> ParseComparison(p)
    [] level = "comparison" -> ParseTerm(p)
    [] level = "term" -> ParseFactor(p)
    [] level = "factor" -> ParseUnary(p)
RECURSIVE OperatorLoop(_, _, _)
OperatorLoop(level, left, p) ==
  IF PeekKind(p) \notin OperatorsOf(level) THEN POk(left, p)
  ELSE Try(OperandOf(level, Inc(p)), LAMBDA right :
         OperatorLoop(level,
                      IF level \in {"or", "and"}
                      THEN ExprLogical(left, Peek(p)[1], right.node)
                      ELSE ExprBinary(left, Peek(p)[1], right.node),
                      right.p))

\* factor, term, comparison, equality, and, or
ParseFactor(p) == Try(ParseUnary(p), LAMBDA left : OperatorLoop("factor", left.node, left.p))
ParseTerm(p) == Try(ParseFactor(p), LAMBDA left : OperatorLoop("term", left.node, left.p))
ParseComparison(p) ==
  Try(ParseTerm(p), LAMBDA left : OperatorLoop("comparison", left.node, left.p))
ParseEquality(p) ==
  Try(ParseComparison(p), LAMBDA left : OperatorLoop("equality", left.node, left.p))
ParseAnd(p) == Try(ParseEquality(p), LAMBDA left : OperatorLoop("and", left.node, left.p))
ParseOr(p) == Try(ParseAnd(p), LAMBDA left : OperatorLoop("or", left.node, left.p))

\* assignment
ParseAssignment(p) ==
  Try(ParseOr(p), LAMBDA left :
    IF PeekKind(left.p) # "Equal" THEN left
    ELSE Try(NextToken(left.p), LAMBDA equals :
           Try(ParseAssignment(equals.p), LAMBDA right :
             IF left.node.kind = "Variable"
             THEN POk(ExprAssign(left.node.name, right.node, left.node.line), right.p)
             ELSE PErr(MalformedExpression(equals.node.line, <<"Invalid assignment target.">>),
                       right.p))))

\* expression
ParseExpression(p) == ParseAssignment(p)

\* `if !self.is_at_end() { self.consume(Semicolon)?; }` and Ok(stmt)
EndOfStmt(stmt, p) ==
  IF IsAtEnd(p) THEN POk(stmt, p)
  ELSE Try(Consume(p, "Semicolon"), LAMBDA semicolon : POk(stmt, semicolon.p))

\* expression_stmt, print_stmt
ParseExpressionStmt(p) ==
  Try(ParseExpression(p), LAMBDA expr : EndOfStmt(StmtExpr(expr.node), expr.p))
ParsePrintStmt(p) ==
  Try(ParseExpression(p), LAMBDA expr : EndOfStmt(StmtPrint(expr.node), expr.p))

\* var_declaration
ParseVarDeclaration(p) ==
  Try(NextToken(p), LAMBDA token :
    IF token.node.kind # "Identifier"
    THEN PErr(MalformedExpression(token.node.line,
                <<"Expected identifier, got ">> \o TokenSymbol(token.node)), token.p)
    ELSE Try(IF PeekKind(token.p) = "Equal"
             THEN Try(Consume(token.p, "Equal"), LAMBDA equal :
                    Try(ParseExpression(equal.p), LAMBDA expr :
                      POk(StmtVar(token.node.text, expr.node, token.node.line), expr.p)))
             ELSE POk(StmtVar(token.node.text, ExprLiteralNil, token.node.line), token.p),
             LAMBDA stmt :
           Try(Consume(stmt.p, "Semicolon"), LAMBDA semicolon : POk(stmt.node, semicolon.p))))

\* `(`, the condition and `)` of if_stmt and while_stmt
ParseCondition(p) ==
  Try(Consume(p, "LeftParen"), LAMBDA paren :
    Try(ParseExpression(paren.p), LAMBDA condition :
      Try(Consume(condition.p, "RightParen"), LAMBDA closing :
        POk(condition.node, closing.p))))

\* if_stmt
ParseIfStmt(p) ==
  Try(ParseCondition(p), LAMBDA condition :
    Try(ParseStatement(condition.p), LAMBDA then :
      IF PeekKind(then.p) # "Else" THEN POk(StmtIf(condition.node, then.node, <<>>), then.p)
      ELSE Try(ParseStatement(Inc(then.p)), LAMBDA els :
             POk(StmtIf(condition.node, then.node, <<els.node>>), els.p))))

\* scope_block 121-126: the declarations up to the closing brace
RECURSIVE BlockStmts(_, _)
BlockStmts(p, stmts) ==
  IF PeekKind(p) \in {"None", "RightBrace"} THEN POk(stmts, p)
  ELSE Try(ParseDeclaration(p), LAMBDA d : BlockStmts(d.p, Append(stmts, d.node)))

\* scope_block
ParseScopeBlock(p) ==
  Try(BlockStmts(p, <<>>), LAMBDA stmts :
    Try(Consume(stmts.p, "RightBrace"), LAMBDA brace :
      POk(StmtScopeBlock(stmts.node), brace.p)))

\* while_stmt
ParseWhileStmt(p) ==
  Try(ParseCondition(p), LAMBDA condition :
    Try(ParseStatement(condition.p), LAMBDA body :
      POk(StmtWhile(condition.node, body.node), body.p)))

\* for_stmt with the increment after the loop instead of in its body
ForAssembleIncAfter(declaration, condition, increment, for_body) ==
  StmtScopeBlock(declaration
                 \o <<StmtWhile(IF condition = <<>> THEN ExprLiteralBool(TRUE) ELSE condition[1],
                                for_body)>>
                 \o [i \in 1..Len(increment) |-> StmtExpr(increment[i])])

\* for_stmt 179-196: the statement made of the parts; declaration, condition
\* and increment are Options, sequences of at most one element
ForAssemble(declaration, condition, increment, for_body) ==
  StmtScopeBlock(declaration
                 \o <<StmtWhile(IF condition = <<>> THEN ExprLiteralBool(TRUE) ELSE condition[1],
                                IF increment = <<>> THEN for_body
                                ELSE StmtScopeBlock(<<for_body, StmtExpr(increment[1])>>))>>)

\* for_stmt 147-156, 159-164, 168-173: the three parts, each an Option
ForDeclaration(p) ==
  IF PeekKind(p) = "Semicolon" THEN POk(<<>>, Inc(p))
  ELSE Try(IF PeekKind(p) = "Var" THEN ParseVarDeclaration(Inc(p)) ELSE ParseExpressionStmt(p),
           LAMBDA stmt : POk(<<stmt.node>>, stmt.p))
ForPart(p, closing) ==
  IF PeekKind(p) \in {"None", closing} THEN POk(<<>>, p)
  ELSE Try(ParseExpression(p), LAMBDA expr : POk(<<expr.node>>, expr.p))

\* for_stmt
ParseForStmt(p) ==
  Try(Consume(p, "LeftParen"), LAMBDA paren :
    Try(ForDeclaration(paren.p), LAMBDA declaration :
      Try(ForPart(declaration.p, "Semicolon"), LAMBDA condition :
        Try(Consume(condition.p, "Semicolon"), LAMBDA semicolon :
          Try(ForPart(semicolon.p, "RightParen"), LAMBDA increment :
            Try(Consume(increment.p, "RightParen"), LAMBDA closing :
              Try(ParseStatement(closing.p), LAMBDA for_body :
                POk(ForAssemble(declaration.node, condition.node, increment.node,
                                for_body.node), for_body.p))))))))

\* statement
ParseStatement(p) ==
  CASE PeekKind(p) = "Print" -> ParsePrintStmt(Inc(p))
    [] PeekKind(p) = "If" -> ParseIfStmt(Inc(p))
    [] PeekKind(p) = "LeftBrace" -> ParseScopeBlock(Inc(p))
    [] PeekKind(p) = "While" -> ParseWhileStmt(Inc(p))
    [] PeekKind(p) = "For" -> ParseForStmt(Inc(p))
    [] OTHER -> ParseExpressionStmt(p)

\* declaration
ParseDeclaration(p) ==
  IF PeekKind(p) = "Var" THEN ParseVarDeclaration(Inc(p)) ELSE ParseStatement(p)

MaxArgs == 2   \* arguments of a call in the token lists

\* Tokens of line 1, as the scanner gives them for a text of one line
Tok(kind) == Token(kind, 1)
Id(c) == LexToken("Identifier", <<c>>, 1)
Num(digits) == LexToken("Number", digits, 1)
Name(c) == ExprVariable(<<c>>, 1)

\* A piece of a token list with the syntax tree it stands for
Piece(tokens, node) == [tokens |-> tokens, node |-> node]
Optional(pieces) == {<<>>} \cup {<<x>> : x \in pieces}
TokensOf(option) == IF option = <<>> THEN <<>> ELSE option[1].tokens

\* 1   a   f()
ArgPieces ==
  {Piece(<<Num(<<"1">>)>>, Lit(1)),
   Piece(<<Id("a")>>, Name("a")),
   Piece(<<Id("f"), Tok("LeftParen"), Tok("RightParen")>>, ExprCall(1, Name("f"), <<>>))}

\* f(args);  where a comma stands between two arguments, and after the last
\* one, or not
CallShapes ==
  UNION {{[args |-> args, commas |-> commas, trailing |-> trailing] :
            args \in [1..n -> ArgPieces],
            commas \in [1..(IF n = 0 THEN 0 ELSE n - 1) -> BOOLEAN],
            trailing \in BOOLEAN} : n \in 0..MaxArgs}
RECURSIVE ArgTokens(_, _)
ArgTokens(shape, i) ==
  IF i > Len(shape.args) THEN <<>>
  ELSE shape.args[i].tokens
       \o (IF i < Len(shape.args) /\ shape.commas[i] THEN <<Tok("Comma")>> ELSE <<>>)
       \o ArgTokens(shape, i + 1)
CallTokens(shape) ==
  <<Id("f"), Tok("LeftParen")>> \o ArgTokens(shape, 1)
  \o (IF shape.trailing THEN <<Tok("Comma")>> ELSE <<>>)
  \o <<Tok("RightParen"), Tok("Semicolon"), Tok("Eof")>>

\* var a = 1;   a = 1;   var a;
InitPieces ==
  {Piece(<<Tok("Var"), Id("a"), Tok("Equal"), Num(<<"1">>), Tok("Semicolon")>>,
         StmtVar(<<"a">>, Lit(1), 1)),
   Piece(<<Id("a"), Tok("Equal"), Num(<<"1">>), Tok("Semicolon")>>,
         StmtExpr(ExprAssign(<<"a">>, Lit(1), 1))),
   Piece(<<Tok("Var"), Id("a"), Tok("Semicolon")>>, StmtVar(<<"a">>, ExprLiteralNil, 1))}
\* a < 1.5   false
CondPieces ==
  {Piece(<<Id("a"), Tok("Less"), Num(<<"1", ".", "5">>)>>,
         ExprBinary(Name("a"), Tok("Less"), ExprLiteralNumber(F64(3, 2)))),
   Piece(<<Tok("False")>>, ExprLiteralBool(FALSE))}
\* a = a + 1   f(a)
IncPieces ==
  {Piece(<<Id("a"), Tok("Equal"), Id("a"), Tok("Plus"), Num(<<"1">>)>>,
         ExprAssign(<<"a">>, ExprBinary(Name("a"), Tok("Plus"), Lit(1)), 1)),
   Piece(<<Id("f"), Tok("LeftParen"), Id("a"), Tok("RightParen")>>,
         ExprCall(1, Name("f"), <<Name("a")>>))}
\* print a;   { print a; }   a;   for (;;) a;
BodyPieces ==
  {Piece(<<Tok("Print"), Id("a"), Tok("Semicolon")>>, StmtPrint(Name("a"))),
   Piece(<<Tok("LeftBrace"), Tok("Print"), Id("a"), Tok("Semicolon"), Tok("RightBrace")>>,
         StmtScopeBlock(<<StmtPrint(Name("a"))>>)),
   Piece(<<Id("a"), Tok("Semicolon")>>, StmtExpr(Name("a"))),
   Piece(<<Tok("For"), Tok("LeftParen"), Tok("Semicolon"), Tok("Semicolon"), Tok("RightParen"),
           Id("a"), Tok("Semicolon")>>,
         StmtScopeBlock(<<StmtWhile(ExprLiteralBool(TRUE), StmtExpr(Name("a")))>>))}

\* for (init; cond; inc) body print a;   with each of init, cond and inc
\* present or missing
ForShapes ==
  [init : Optional(InitPieces), cond : Optional(CondPieces), inc : Optional(IncPieces),
   body : BodyPieces]
ForTokens(shape) ==
  <<Tok("For"), Tok("LeftParen")>>
  \o (IF shape.init = <<>> THEN <<Tok("Semicolon")>> ELSE TokensOf(shape.init))
  \o TokensOf(shape.cond) \o <<Tok("Semicolon")>>
  \o TokensOf(shape.inc) \o <<Tok("RightParen")>>
  \o shape.body.tokens
  \o <<Tok("Print"), Id("a"), Tok("Semicolon"), Tok("Eof")>>

TokenLists == {CallTokens(shape) : shape \in CallShapes} \cup {ForTokens(shape) : shape \in ForShapes}

\* LoxParser::new on a token list
InitParse ==
  /\ nodes = Define(NewArena.nodes, NewArena.id, "clock", NativeFn("clock"))
  /\ current = NewArena.current
  /\ current_id = NewArena.id
  /\ stack = <<>>
  /\ signal = NoSignal
  /\ result = Unbound
  /\ pc = "run"
  /\ released = {}
  /\ role = [i \in {NewArena.id} |-> "globals"]
  /\ last = NoOp
  /\ program = NoProgram
  /\ stdout = <<>>
  /\ trace = <<>>
  /\ scanner = NoScanner
  /\ \E tokens \in TokenLists : parser = NewParser(tokens)

\* parse 31-33: a turn of `while !self.is_at_end()`; an Err is the result of parse
ParseStep ==
  /\ parser.state = "parsing"
  /\ ~IsAtEnd(parser)
  /\ \E r \in {ParseDeclaration(parser)} :
       parser' = IF r.ok THEN [r.p EXCEPT !.stmts = Append(@, r.node)]
                 ELSE [r.p EXCEPT !.state = "parsed",
                                  !.returned = [ok |-> FALSE, stmts |-> <<>>, err |-> r.err]]
  /\ UNCHANGED <<nodes, current, current_id, stack, signal, result, pc, released, role, last,
                 program, stdout, trace, scanner>>

\* parse 34: Ok(stmts)
ParseFinish ==
  /\ parser.state = "parsing"
  /\ IsAtEnd(parser)
  /\ parser' = [parser EXCEPT !.state = "parsed",
                              !.returned = [ok |-> TRUE, stmts |-> parser.stmts,
                                            err |-> NoParseError]]
  /\ UNCHANGED <<nodes, current, current_id, stack, signal, result, pc, released, role, last,
                 program, stdout, trace, scanner>>

NextParse ==
  \/ ParseStep
  \/ ParseFinish

SpecParse == InitParse /\ [][NextParse]_vars

----------------------------------------------------------------------------
(* Properties *)

\* The step pops a frame of the given kind.
Pops(kind) == stack # <<>> /\ Len(stack') < Len(stack) /\ Top.kind = kind

\* The proper ancestors of id in the arena
RECURSIVE AncestorsOf(_, _)
AncestorsOf(ns, id) ==
  IF ~IsChild(ns, id) THEN {}
  ELSE {ns[id].parent} \cup AncestorsOf(ns, ns[id].parent)

\* The user-function values the program can still reach: bound in a scope of
\* the arena, being returned, or just returned by a call
LiveFns ==
  {v \in {nodes[i].data[k] : i \in DOMAIN nodes, k \in AllKeys} \cup {result, signal.value} :
     v.tag = "Lox"}
CapturedScopes == {v.context_id : v \in LiveFns}

\* The scopes branched for a block that no frame holds any more and that
\* were never released
LeakedBlocks ==
  {b \in DOMAIN role : /\ role[b] = "block"
                        /\ b \notin released
                        /\ \A i \in 1..Len(stack) : stack[i].id # b}

\* C1: when a block statement finishes, by normal completion, by a runtime
\* error or by a Return passing through it, current_id is what it was when the
\* block was entered.
C1_BlockRestoresCurrentScope ==
  [][Pops("block") => current_id' = Top.old]_vars

\* C2: whenever a user-function call that passed the arity check exits (its
\* body ended, returned or failed), release has been called on the activation
\* scope (which is gone unless something still counts on it) and current_id is
\* the call site's again.
C2_CallExitReleasesAndRestores ==
  [][Pops("call") =>
       /\ pc' # "panic"
       /\ Top.id \in released'
       /\ (nodes[Top.id].ref_count = 0 <=> Top.id \notin DOMAIN nodes')
       /\ current_id' = Top.old]_vars

\* A call left by a runtime error that crossed a block of the body: the
\* activation scope was released (and kept, the block's scope still counts on
\* it) and current_id is back at the call site.
C2_Witness ==
  /\ last.op = "CallExit" /\ last.via = "Error"
  /\ last.id \in released
  /\ current_id = last.old
  /\ \E b \in LeakedBlocks : b \in DOMAIN nodes /\ nodes[b].parent = last.id

\* C3: every scope branched for a block or for an activation is passed to
\* release once its block or call has exited, however it exited.
C3_EveryBranchedScopeReleased ==
  \A id \in DOMAIN role :
    role[id] \in {"block", "activation"} =>
      (id \in released \/ \E i \in 1..Len(stack) : stack[i].id = id)

\* C4: a Return raised in the body of a call passes the blocks of the body
\* unchanged and stops at the call, which yields the returned value; a body
\* that ends without a Return yields Nil.
C4_ReturnStopsAtCall ==
  [][/\ Pops("block") => signal' = signal
     /\ Pops("call") =>
          /\ signal.kind = "Return" => (signal' = NoSignal /\ result' = signal.value)
          /\ signal.kind = "none" => (signal' = NoSignal /\ result' = Nil)
          /\ signal'.kind # "Return"]_vars

\* A call has just yielded a number returned from inside a block of its body.
C4_Witness ==
  /\ last.op = "CallExit" /\ last.via = "Return"
  /\ signal = NoSignal
  /\ result = Number(1)
  /\ \E b \in LeakedBlocks : b \in DOMAIN nodes /\ nodes[b].parent = last.id

\* C5: release(id) on a Child removes the node iff its ref_count is zero, and
\* then takes one from the count of a Child parent and changes nothing else;
\* with a non-zero count the arena is unchanged; it returns the parent id.
C5_ReleaseContract ==
  \A id \in ChildIds(nodes) : \A r \in Release(nodes, id) :
    LET p == nodes[id].parent
    IN /\ r.ok
       /\ r.parent = p
       /\ (id \notin DOMAIN r.nodes) <=> (nodes[id].ref_count = 0)
       /\ nodes[id].ref_count # 0 => r.nodes = nodes
       /\ nodes[id].ref_count = 0 =>
            /\ DOMAIN r.nodes = DOMAIN nodes \ {id}
            /\ \A i \in DOMAIN r.nodes :
                 IF i = p /\ nodes[p].kind = "Child"
                 THEN /\ nodes[p].ref_count >= 1
                      /\ r.nodes[p] = [nodes[p] EXCEPT !.ref_count = @ - 1]
                 ELSE r.nodes[i] = nodes[i]

\* release has just kept a node with a non-zero count, after an earlier
\* release removed another one and lowered its parent's count.
C5_Witness ==
  /\ last.op = "release" /\ last.via = "kept"
  /\ nodes[last.id].ref_count > 0
  /\ \E j \in released : j \notin DOMAIN nodes

\* The nodes of the arena whose parent is n
ChildrenOf(ns, n) == {m \in ChildIds(ns) : ns[m].parent = n}

C7_RetainedScopeRemovedAtZero ==
  \A n \in released \cap ChildIds(nodes) : nodes[n].ref_count # 0

RECURSIVE ReachesRoot(_, _, _)
ReachesRoot(ns, id, fuel) ==
  IF id \notin DOMAIN ns THEN FALSE
  ELSE IF ns[id].kind = "Base" THEN TRUE
  ELSE IF fuel = 0 THEN FALSE
  ELSE ReachesRoot(ns, ns[id].parent, fuel - 1)

\* C9: the current scope, the scopes of the frames in progress, every node's
\* parent and every reachable function's captured scope are nodes of the
\* arena, and the parent links of every Child lead to Root.
C9_ScopeIdsResolve ==
  /\ current_id \in DOMAIN nodes
  /\ \A i \in 1..Len(stack) : stack[i].id \in DOMAIN nodes /\ stack[i].old \in DOMAIN nodes
  /\ \A n \in ChildIds(nodes) :
       /\ nodes[n].parent \in DOMAIN nodes
       /\ ReachesRoot(nodes, n, Cardinality(DOMAIN nodes))
  /\ \A x \in CapturedScopes : x \in DOMAIN nodes

\* The program failed inside a block after release had removed another
\* scope: current_id is left at the block's scope, which was never released,
\* and a reachable function still holds its captured scope.
C9_Witness ==
  /\ pc = "failed"
  /\ current_id \in LeakedBlocks
  /\ \E j \in released : j \notin DOMAIN nodes
  /\ CapturedScopes # {}

\* The scopes from id to Root, and how far each node is from Root
ChainOf(ns, id) == IF IsChild(ns, id) THEN {id} \cup AncestorsOf(ns, id) ELSE {}
DepthOf(ns, id) == Cardinality(AncestorsOf(ns, id))
BindersOf(ns, id, key) == {s \in ChainOf(ns, id) : IsChild(ns, s) /\ ContainsKey(ns[s].data, key)}

\* C10: get(id, key) is the value key has in the scope nearest to id among
\* those from id to Root that bind key, and not-found exactly when none of
\* them binds it, whatever other scopes bind.
C10_GetFindsNearestBinding ==
  \A id \in DOMAIN nodes, key \in AllKeys :
    LET binders == BindersOf(nodes, id, key)
    IN IF binders = {}
       THEN Get(nodes, id, key) = Unbound
       ELSE \E s \in binders :
              /\ \A t \in binders : DepthOf(nodes, t) <= DepthOf(nodes, s)
              /\ Get(nodes, id, key) = nodes[s].data[key]

\* One scope shadows its parent's binding of a key, and a key bound only in
\* its sibling is not found from it.
C10_Witness ==
  \E id \in ChildIds(nodes), sib \in ChildIds(nodes), k1 \in Keys, k2 \in Keys :
    /\ IsChild(nodes, nodes[id].parent)
    /\ sib # id /\ nodes[sib].parent = nodes[id].parent
    /\ ContainsKey(nodes[id].data, k1)
    /\ ContainsKey(nodes[nodes[id].parent].data, k1)
    /\ nodes[id].data[k1] # nodes[nodes[id].parent].data[k1]
    /\ Get(nodes, id, k1) = nodes[id].data[k1]
    /\ ContainsKey(nodes[sib].data, k2)
    /\ Get(nodes, id, k2) = Unbound

\* Scope i of the arena `after` is scope i of `before`, but for the binding
\* of key in scope s, which is v.
SameButBinding(before, after, s, key, v) ==
  /\ DOMAIN after = DOMAIN before
  /\ \A i \in DOMAIN before :
       /\ after[i].kind = before[i].kind
       /\ after[i].parent = before[i].parent
       /\ after[i].ref_count = before[i].ref_count
       /\ \A k \in AllKeys :
            after[i].data[k] = IF i = s /\ k = key THEN v ELSE before[i].data[k]

\* C11: assign(id, key, v) succeeds exactly when a scope from id to Root binds
\* key; then the nearest such scope gets key bound to v, get(id, key) is v and
\* nothing else in the arena changes; when it fails the arena is unchanged.
C11_AssignUpdatesNearestBindingOnly ==
  \A id \in DOMAIN nodes, key \in AllKeys : \A v \in ArenaValues(key) :
    LET r == Assign(nodes, id, key, v)
        binders == BindersOf(nodes, id, key)
    IN /\ r.ok <=> binders # {}
       /\ ~r.ok => r.nodes = nodes
       /\ r.ok =>
            /\ Get(r.nodes, id, key) = v
            /\ \E s \in binders :
                 /\ \A t \in binders : DepthOf(nodes, t) <= DepthOf(nodes, s)
                 /\ SameButBinding(nodes, r.nodes, s, key, v)

\* A scope that does not bind a variable lies under two that do, the nearer
\* one holding an assigned value: an assignment from the innermost scope
\* succeeds and changes the arena, one of a variable nobody binds fails.
C11_Witness ==
  \E id \in ChildIds(nodes), key \in VarNames, other \in FnNames :
    LET p == nodes[id].parent
    IN /\ IsChild(nodes, p) /\ IsChild(nodes, nodes[p].parent)
       /\ ~ContainsKey(nodes[id].data, key)
       /\ nodes[p].data[key] = Number(2)
       /\ nodes[nodes[p].parent].data[key] = Number(1)
       /\ Assign(nodes, id, key, Number(1)).ok
       /\ Assign(nodes, id, key, Number(1)).nodes # nodes
       /\ ~Assign(nodes, id, other, Number(1)).ok

\* C12: define(id, key, v) on a Child binds key to v in the scope at id and
\* changes nothing else, whatever the ancestors bind; define on Root changes
\* nothing.
C12_DefineWritesOnlyItsScope ==
  \A id \in DOMAIN nodes, key \in AllKeys : \A v \in ArenaValues(key) :
    LET d == Define(nodes, id, key, v)
    IN IF IsChild(nodes, id)
       THEN SameButBinding(nodes, d, id, key, v)
       ELSE d = nodes

\* A scope that does not bind a variable lies under one that binds it: a
\* define in the inner scope changes the arena, and the outer binding is not
\* what changed.
C12_Witness ==
  \E id \in ChildIds(nodes), key \in VarNames :
    LET p == nodes[id].parent
        d == Define(nodes, id, key, Number(2))
    IN /\ IsChild(nodes, p)
       /\ ~ContainsKey(nodes[id].data, key)
       /\ nodes[p].data[key] = Number(1)
       /\ d # nodes
       /\ d[p] = nodes[p]
       /\ Define(nodes, 0, key, Number(2)) = nodes

\* C13: for every Child scope id, key and value v, get(id, key) on the arena
\* define(id, key, v) leaves is v, whether or not the scope or an ancestor
\* bound key before.
C13_GetAfterDefine ==
  \A id \in ChildIds(nodes), key \in AllKeys : \A v \in ArenaValues(key) :
    Get(Define(nodes, id, key, v), id, key) = v

\* A scope and its parent both bind a variable, and a define in the scope
\* replaces the value get returned.
C13_Witness ==
  \E id \in ChildIds(nodes), key \in VarNames :
    /\ IsChild(nodes, nodes[id].parent)
    /\ ContainsKey(nodes[nodes[id].parent].data, key)
    /\ Get(nodes, id, key) = Number(1)
    /\ nodes[id].data[key] = Number(1)
    /\ Get(Define(nodes, id, key, Number(2)), id, key) = Number(2)

\* The number of the first j calls of a counter program that were calls of
\* the closure the j-th one calls
CallsBefore(calls, j) == Cardinality({i \in 1..j : calls[i] = calls[j]})

\* C14: a function value returned out of the call that defined it reads and
\* assigns the variables of that call after the call has exited, and the
\* changes persist: the calls of each counter made by make() print 1, 2, ...,
\* and the variable a of the exited call holds the count.
C14_ClosureKeepsDefiningScope ==
  \A calls \in CallSeqs :
    program.stmts = CounterProgram(calls) =>
      /\ pc \in {"run", "done"}
      /\ Len(stdout) = IF program.at > 4 THEN program.at - 4 ELSE 0
      /\ \A j \in 1..Len(stdout) : stdout[j] = F64ToString(F64(CallsBefore(calls, j), 1))
      /\ \A name \in {"f", "g"} :
           LET fn == Get(nodes, current_id, name)
               defining == nodes[fn.context_id].parent
           IN fn # Unbound =>
                /\ fn.tag = "Lox"
                /\ IsChild(nodes, fn.context_id)
                /\ IsChild(nodes, defining)
                /\ defining \notin ChainOf(nodes, current_id)
                /\ nodes[defining].data["a"] =
                     Number(Cardinality({i \in 1..Len(stdout) : calls[i] = name}))

\* The program with two calls of the counter f has ended, having printed 1
\* and 2, and the other counter still holds 0.
C14_Witness ==
  /\ pc = "done"
  /\ program.stmts = CounterProgram(<<"f", "f">>)
  /\ stdout = <<<<"1">>, <<"2">>>>
  /\ nodes[nodes[Get(nodes, current_id, "g").context_id].parent].data["a"] = Number(0)

\* The interpreter of the current state, for each reading of the clock and
\* each build
EvalStates ==
  {Interpreter(nodes, current, current_id, stdout, <<>>, now, checks) :
     now \in Nums, checks \in BOOLEAN}

\* The expressions the operands, callees and arguments are drawn from: the
\* literals, variables that are a number or a string or nil, a function, the
\* native function, an unbound name, and expressions with an effect (an
\* assignment, a call) or an error (a division by zero)
Operands ==
  {Lit(0), Lit(1), Huge, ExprLiteralString(<<"a">>), ExprLiteralBool(TRUE),
   ExprLiteralBool(FALSE), ExprLiteralNil, Var("a"), Var("f"), Var("clock"), Var("inc"),
   ExprAssign("a", Lit(2), 1), ZeroDiv, NaNExpr, ExprCall(1, Var("f"), <<Lit(1)>>)}
ArgOperands == {Lit(1), Var("a"), ExprAssign("a", Lit(2), 1), ZeroDiv}
ArgExprLists ==
  {<<>>} \cup {<<x>> : x \in ArgOperands} \cup {<<x, y>> : x \in ArgOperands, y \in ArgOperands}

\* Two interpreters differ at most in the history of expressions entered
SameEffects(s, t) == [s EXCEPT !.trace = <<>>] = [t EXCEPT !.trace = <<>>]
\* r is the Result q with the expression e entered before q's expressions
SameAfterEntering(r, e, q) ==
  /\ r.ok = q.ok /\ r.value = q.value /\ r.err = q.err
  /\ SameEffects(r.st, q.st)
  /\ r.st.trace = <<e>> \o q.st.trace

\* The number of arguments a callable takes: the parameters of a user
\* function, none for clock
Arity(callable) == IF callable.tag = "Lox" THEN Len(callable.params) ELSE 0

\* C15: a call of a callable, user-defined or native, with a number of
\* arguments different from its arity fails with WrongNumberOfArguments
\* carrying the call's line, the function name, the expected and the received
\* count, and the callable is not run.
C15_WrongArityRejected ==
  \A st \in EvalStates, callee \in Operands, args \in ArgExprLists :
    LET e == ExprCall(3, callee, args)
        c == InterpretExpr(callee, st)
        a == InterpretArgs(args, c.st)
        whole == InterpretExpr(e, st)
    IN (c.ok /\ IsCallable(c.value) /\ a.ok /\ Len(args) # Arity(c.value)) =>
         SameAfterEntering(whole, e,
           ErrRes(RuntimeError("WrongNumberOfArguments", 3,
                               <<c.value.name, ToString(Arity(c.value)), ToString(Len(args))>>),
                  a.st))

\* C16: the callee is evaluated first; a callee that is not a callable makes
\* the call fail with NotAFunction at the call's line before any argument is
\* evaluated; otherwise the arguments are evaluated left to right, and then
\* the callable is called with their values.
C16_CalleeCheckedBeforeArguments ==
  \A st \in EvalStates, callee \in Operands, args \in ArgExprLists :
    LET e == ExprCall(3, callee, args)
        c == InterpretExpr(callee, st)
        a == InterpretArgs(args, c.st)
        whole == InterpretExpr(e, st)
    IN c.ok =>
         IF ~IsCallable(c.value)
         THEN SameAfterEntering(whole, e,
                ErrRes(RuntimeError("NotAFunction", 3, <<TypeName(c.value)>>), c.st))
         ELSE IF ~a.ok THEN SameAfterEntering(whole, e, ErrRes(a.err, a.st))
         ELSE SameAfterEntering(whole, e, CallableCall(c.value, a.values, 3, a.st))

\* C17: `a and b` is a's value, with b not evaluated, when a is falsey, and
\* b's value otherwise; `a or b` is a's value, with b not evaluated, when a is
\* truthy, and b's value otherwise; the value is the operand's own.
C17_LogicalShortCircuits ==
  \A st \in EvalStates, a \in Operands, b \in Operands, kind \in {"And", "Or"} :
    LET e == ExprLogical(a, Token(kind, 2), b)
        ra == InterpretExpr(a, st)
        whole == InterpretExpr(e, st)
    IN ra.ok =>
         IF IsFalsey(ra.value) <=> kind = "And"
         THEN SameAfterEntering(whole, e, ra)
         ELSE SameAfterEntering(whole, e, InterpretExpr(b, ra.st))

\* `nil and (a = 2)` left a at 1 and gave nil, in a program that ended.
C17_Witness ==
  /\ pc = "done"
  /\ program.stmts =
       ExprProgram(Lit(1), ExprLogical(ExprLiteralNil, Token("And", 2),
                                       ExprAssign("a", Lit(2), 1)))
  /\ Get(nodes, current_id, "g") = Nil
  /\ Get(nodes, current_id, "a") = Number(1)
  /\ Len(trace) = 2

\* C18: for each of - * / < <= > >=, when the two operand values are not both
\* numbers the evaluation fails with WrongBinaryOperationType carrying the
\* operator's line, its symbol and the type names of the left and the right
\* operand.
C18_NonNumbersRejected ==
  \A st \in EvalStates, a \in Operands, b \in Operands :
    \A kind \in {"Minus", "Star", "Slash", "Less", "LessEqual", "Greater", "GreaterEqual"} :
      LET e == ExprBinary(a, Token(kind, 2), b)
          ra == InterpretExpr(a, st)
          rb == InterpretExpr(b, ra.st)
          whole == InterpretExpr(e, st)
      IN (ra.ok /\ rb.ok /\ ~(ra.value.tag = "Number" /\ rb.value.tag = "Number")) =>
           SameAfterEntering(whole, e,
             ErrRes(RuntimeError("WrongBinaryOperationType", 2,
                                 <<Symbol(kind), TypeName(ra.value), TypeName(rb.value)>>),
                    rb.st))

\* C19: a division fails with ZeroDivision carrying the line of its `/`, and
\* gives no value, exactly when both operands were evaluated to numbers and
\* the divisor is zero.
C19_DivisionByZero ==
  \A st \in EvalStates, a \in Operands, b \in Operands :
    LET e == ExprBinary(a, Token("Slash", 2), b)
        ra == InterpretExpr(a, st)
        rb == InterpretExpr(b, ra.st)
        whole == InterpretExpr(e, st)
        by_zero == /\ ra.ok /\ rb.ok
                   /\ ra.value.tag = "Number" /\ rb.value.tag = "Number"
                   /\ F64Of(rb.value) = Zero
    IN /\ by_zero =>
            SameAfterEntering(whole, e, ErrRes(RuntimeError("ZeroDivision", 2, <<>>), rb.st))
       /\ whole.err = RuntimeError("ZeroDivision", 2, <<>>) => by_zero
       /\ (ra.ok /\ rb.ok /\ ra.value.tag = "Number" /\ rb.value.tag = "Number" /\ ~by_zero) =>
            whole.ok /\ whole.value.tag = "Number"

\* `a / 0` with a = 1 ended the program with ZeroDivision after both operands
\* were evaluated, and g was not defined.
C19_Witness ==
  /\ pc = "failed"
  /\ signal = ErrorSignal("ZeroDivision")
  /\ program.stmts = ExprProgram(Lit(1), ExprBinary(Var("a"), Token("Slash", 2), Lit(0)))
  /\ trace = <<ExprBinary(Var("a"), Token("Slash", 2), Lit(0)), Var("a"), Lit(0)>>
  /\ Get(nodes, current_id, "g") = Unbound

\* The values at hand in the current state: those of the operands that
\* evaluate, and those bound in the arena
ValuesAt(st) ==
  {InterpretExpr(e, st).value : e \in {x \in Operands : InterpretExpr(x, st).ok}}
  \cup ({nodes[i].data[k] : i \in DOMAIN nodes, k \in AllKeys} \ {Unbound})
Equals(st, a, b) == BinaryValues(Token("EqualEqual", 2), a, b, st).value
Differs(st, a, b) == BinaryValues(Token("BangEqual", 2), a, b, st).value
Not(b) == Boolean(b = Boolean(FALSE))

\* C20 as stated: for all values a and b, a == a is true, a == b is b == a,
\* a != b is the negation of a == b, and a == b is false for values of
\* different tags.
C20_EqualityLaws ==
  \A st \in EvalStates : \A a \in ValuesAt(st), b \in ValuesAt(st) :
    /\ Equals(st, a, a) = Boolean(TRUE)
    /\ Equals(st, a, b) = Equals(st, b, a)
    /\ Differs(st, a, b) = Not(Equals(st, a, b))
    /\ a.tag # b.tag => Equals(st, a, b) = Boolean(FALSE)

\* C20 amended: a == a is true for every value but a NaN number, for which it
\* is false; a == b is b == a, a != b is the negation of a == b, and a == b is
\* false for values of different tags.
C20_EqualityLawsButNaN ==
  \A st \in EvalStates : \A a \in ValuesAt(st), b \in ValuesAt(st) :
    /\ Equals(st, a, a) = Boolean(~(a.tag = "Number" /\ IsNaN(F64Of(a))))
    /\ Equals(st, a, b) = Equals(st, b, a)
    /\ Differs(st, a, b) = Not(Equals(st, a, b))
    /\ a.tag # b.tag => Equals(st, a, b) = Boolean(FALSE)

\* `a == a` gave false for a variable holding the NaN of inf - inf, in a
\* program that ended.
C20_Witness ==
  /\ pc = "done"
  /\ program.stmts = ExprProgram(NaNExpr, ExprBinary(Var("a"), Token("EqualEqual", 2), Var("a")))
  /\ Get(nodes, current_id, "a") = NumberValue(NaN)
  /\ Get(nodes, current_id, "g") = Boolean(FALSE)

\* C21: for every value v, `!!v` is Boolean(truthy(v)), where truthy(v) is
\* false for nil and false only (zero, the empty string and the callables are
\* truthy), and `!` never fails.
C21_DoubleBangIsTruthiness ==
  \A st \in EvalStates, a \in Operands :
    LET bang == Token("Bang", 2)
        ra == InterpretExpr(a, st)
        once == InterpretExpr(ExprUnary(bang, a), st)
        twice == InterpretExpr(ExprUnary(bang, ExprUnary(bang, a)), st)
    IN ra.ok =>
         /\ once.ok /\ twice.ok
         /\ twice.value = Boolean(ra.value \notin {Nil, Boolean(FALSE)})
         /\ once.value = Boolean(ra.value \in {Nil, Boolean(FALSE)})
         /\ SameEffects(twice.st, ra.st)

\* `!!a` gave true for a variable holding the number zero, in a program that
\* ended.
C21_Witness ==
  /\ pc = "done"
  /\ program.stmts =
       ExprProgram(Lit(0), ExprUnary(Token("Bang", 2), ExprUnary(Token("Bang", 2), Var("a"))))
  /\ Get(nodes, current_id, "a") = Number(0)
  /\ Get(nodes, current_id, "g") = Boolean(TRUE)

\* The top-level statement of an error program in which the error arises
FailingAt(k, wrap) == IF wrap = "top" THEN k + 1 ELSE IF wrap = "call" THEN 2 ELSE 1

\* C22: when a statement raises a runtime error the evaluation of the program
\* stops at that error: no later statement is executed, nothing more is
\* written to stdout, and what was written before the error stays written.
C22_ErrorStopsTheProgram ==
  \A k \in 0..MaxPrints, wrap \in Wraps :
    program.stmts = ErrorProgram(k, wrap) =>
      /\ pc \in {"run", "failed"}
      /\ \A j \in 1..Len(stdout) : stdout[j] = <<"1">>
      /\ Len(stdout) <= k
      /\ program.at <= FailingAt(k, wrap) + 1
      /\ pc = "failed" =>
           /\ signal = ErrorSignal("ZeroDivision")
           /\ program.at = FailingAt(k, wrap) + 1
           /\ Len(stdout) = k
           /\ trace # <<>> /\ trace[Len(trace)] = Lit(0)
           /\ \A j \in 1..Len(trace) : trace[j] # Lit(2)

\* A while loop whose body printed once and then divided by zero ended the
\* program with that error and the one line written.
C22_Witness ==
  /\ pc = "failed"
  /\ program.stmts = ErrorProgram(1, "while")
  /\ signal = ErrorSignal("ZeroDivision")
  /\ stdout = <<<<"1">>>>

\* The arena and the current scope of a newly constructed evaluator
NewEvaluator ==
  /\ DOMAIN nodes = {0, NewArena.id}
  /\ nodes[0] = Base
  /\ nodes[NewArena.id] = Child(ScopeWith("clock", NativeFn("clock")), 0, 0)
  /\ current_id = NewArena.id
GlobalsStays == IsChild(nodes, NewArena.id) /\ nodes[NewArena.id].parent = 0 /\ nodes[0] = Base

\* C23: a newly constructed evaluator has an arena holding exactly Root (id 0)
\* and one globals scope, a child of Root that binds clock to a native
\* function, with current_id the globals; the globals scope stays in the
\* arena in every state reached by evaluating statements.
C23_GlobalsForTheLifetime == NewEvaluator /\ []GlobalsStays

\* A block entered at the top level has been released, a function was defined
\* and called, and the globals are the current scope again.
C23_Witness ==
  /\ pc = "run" /\ stack = <<>>
  /\ released # {}
  /\ \E k \in AllKeys : Get(nodes, NewArena.id, k).tag = "Lox"
  /\ result # Unbound
  /\ current_id = NewArena.id
  /\ GlobalsStays

\* The characters of the source text that no token, string or comment takes in
Plain(input) == \A i \in 1..Len(input) : input[i] \notin {"\"", "/"}

\* C24: scanning a source text yields both the token sequence, which ends
\* with exactly one Eof token, and the list of all the scan errors; an
\* unexpected character or an unterminated string adds an error without
\* stopping the scan, and the tokens recognised before and after the error
\* are delivered as well.
C24_TokensAndErrorsDelivered ==
  /\ (scanner.state = "scanning" /\ Plain(scanner.input) /\ scanner.peeked = <<>>) =>
       Len(scanner.errors) = Cardinality({i \in 1..scanner.pos : scanner.input[i] = "@"})
  /\ scanner.state = "scanned" =>
       /\ scanner.pos = Len(scanner.input)
       /\ scanner.returned.tokens = scanner.tokens
       /\ scanner.returned.errors = scanner.errors
       /\ scanner.tokens # <<>>
       /\ \A i \in 1..Len(scanner.tokens) :
            scanner.tokens[i].kind = "Eof" <=> i = Len(scanner.tokens)

\* The line of the character at index i: 1 plus the new lines before it
LineOf(input, i) == 1 + Cardinality({j \in 1..(i - 1) : input[j] = "\n"})

\* C27: each token carries the line on which it starts, 1 plus the number of
\* new lines before its first character; the Eof token carries the last
\* line; the error of an unterminated string reports the line where the
\* string starts.
C27_TokenLines ==
  /\ \A i \in 1..Len(scanner.tokens) :
       scanner.tokens[i].line = LineOf(scanner.input, scanner.starts[i])
  /\ \A j \in 1..Len(scanner.errors) :
       scanner.errors[j][3] = "] Error: Unterminated string." =>
         scanner.errors[j][2] = ToString(LineOf(scanner.input, scanner.error_starts[j]))
  /\ scanner.state = "scanned" =>
       scanner.tokens[Len(scanner.tokens)].line =
         LineOf(scanner.input, Len(scanner.input) + 1)

\* The call shapes whose consecutive arguments all have a comma between them
CommaSeparated(shape) == \A i \in DOMAIN shape.commas : shape.commas[i]

\* C25: the parser accepts the argument list of a call only when a comma
\* stands between every two consecutive arguments (one more may follow the
\* last argument); two arguments with no comma between them are a parse error.
C25_CallArgumentsNeedCommas ==
  \A shape \in CallShapes :
    (parser.state = "parsed" /\ parser.tokens = CallTokens(shape))
      => /\ ~CommaSeparated(shape) => ~parser.returned.ok
         /\ (CommaSeparated(shape) /\ shape.args # <<>>)
              => /\ parser.returned.ok
                 /\ parser.returned.stmts
                      = <<StmtExpr(ExprCall(1, Name("f"),
                                            [i \in DOMAIN shape.args |-> shape.args[i].node]))>>

\* The statement `for (init; cond; inc) body` stands for
ForMeaning(shape) ==
  StmtScopeBlock(
    (IF shape.init = <<>> THEN <<>> ELSE <<shape.init[1].node>>)
    \o <<StmtWhile(IF shape.cond = <<>> THEN ExprLiteralBool(TRUE) ELSE shape.cond[1].node,
                   IF shape.inc = <<>> THEN shape.body.node
                   ELSE StmtScopeBlock(<<shape.body.node, StmtExpr(shape.inc[1].node)>>))>>)

\* C26: `for (init; cond; inc) body` parses to a block that holds init, when
\* there is one, and then one while statement; its condition is cond, or the
\* literal true when cond is missing, and its body is a block of body and
\* then inc, or body alone when inc is missing.
C26_ForIsABlockWithAWhile ==
  \A shape \in ForShapes :
    (parser.state = "parsed" /\ parser.tokens = ForTokens(shape))
      => /\ parser.returned.ok
         /\ parser.returned.stmts = <<ForMeaning(shape), StmtPrint(Name("a"))>>

\* a for with init, cond and inc was parsed, and one with none of them
C26_Witness ==
  /\ parser.state = "parsed"
  /\ parser.returned.ok
  /\ \E shape \in ForShapes :
       /\ parser.tokens = ForTokens(shape)
       /\ shape.init # <<>> /\ shape.cond # <<>> /\ shape.inc # <<>>
       /\ parser.returned.stmts[1].stmts[2].loop.kind = "ScopeBlock"

\* The ids branch has returned so far (each one got a role when it was made)
Returned == DOMAIN role

\* C28: branch never returns 0 and returns an id greater than every id it
\* returned before; an id whose node was removed is never given to a new node,
\* and an id in the arena keeps denoting the same node with the same parent.
C28_IdsNeverReused ==
  [][/\ \A id \in DOMAIN nodes' \ DOMAIN nodes :
          /\ id # 0
          /\ \A earlier \in Returned \cup released \cup DOMAIN nodes : id > earlier
          /\ id = current'
     /\ \A id \in (DOMAIN nodes' \cap DOMAIN nodes) :
          nodes'[id].kind = nodes[id].kind /\ nodes'[id].parent = nodes[id].parent
     /\ Returned \subseteq DOMAIN role']_vars

\* the node of an earlier id was released and removed, and branch has gone on
\* to hand out a greater id whose node is in the arena
C28_Witness ==
  \E gone \in released :
    /\ gone \notin DOMAIN nodes
    /\ current > gone
    /\ current \in ChildIds(nodes)
    /\ current \notin released

\* What a scope program writes when the body of a function sees the bindings
\* of its own activation and of its captured chain only
RECURSIVE CountDown(_)
CountDown(n) == IF n = 0 THEN <<Digits(0)>> ELSE <<Digits(n)>> \o CountDown(n - 1)
ScopeOutput(kind, global, depth) ==
  CASE kind = "recursion" -> CountDown(depth) \o (IF global THEN <<Digits(0)>> ELSE <<>>)
    [] OTHER -> IF global THEN <<Digits(0)>> ELSE <<>>
IsPrefix(s, t) == Len(s) <= Len(t) /\ s = SubSeq(t, 1, Len(s))

\* C29: the body of a user function resolves names through its activation
\* scope and then the chain of its captured scope, never through the scopes
\* of its caller: a variable bound only in the caller's block, or only as a
\* parameter of the caller, is not visible to the body (it reads the global
\* of that name, or fails with UndefinedVariable), and each activation of a
\* recursive function reads its own parameter after the inner one returned.
C29_BodySeesActivationAndCapturedChain ==
  \A kind \in ScopeKinds, global \in BOOLEAN, depth \in 1..MaxCalls :
    program.stmts = ScopeProgram(kind, global, depth) =>
      /\ pc \in {"run", "done", "failed"}
      /\ IsPrefix(stdout, ScopeOutput(kind, global, depth))
      /\ pc = "done" => /\ stdout = ScopeOutput(kind, global, depth)
                        /\ (global \/ kind = "recursion")
      /\ pc = "failed" => /\ ~global /\ kind # "recursion"
                          /\ signal = ErrorSignal("UndefinedVariable")
                          /\ stdout = <<>>

\* a recursive function of the greatest depth returned and every activation
\* wrote its own parameter; the global a was still 0 afterwards
C29_Witness ==
  /\ pc = "done"
  /\ program.stmts = ScopeProgram("recursion", TRUE, MaxCalls)
  /\ stdout = CountDown(MaxCalls) \o <<Digits(0)>>

\* A block whose statements returned Ok is left in this step
NormalBlockExit ==
  /\ Running
  /\ stack # <<>> /\ Top.kind = "block"
  /\ stack' = Pop(stack)

\* No call of the arena has panicked and no ref_count was decremented at zero
NoArenaError ==
  /\ pc # "panic"
  /\ \A id \in ChildIds(nodes) : nodes[id].ref_count >= 0

\* C30: while it evaluates a program the evaluator never calls release on Root
\* or on an id that is not in the arena, never branches from an id that is
\* not in the arena, never decrements a ref_count that is zero, and the id a
\* block releases when its statements returned Ok is the id the block created.
C30_NoArenaProgrammingError ==
  /\ []NoArenaError
  /\ [][/\ \A id \in released' \ released : id \in ChildIds(nodes)
        /\ \A id \in DOMAIN nodes' \ DOMAIN nodes : nodes'[id].parent \in DOMAIN nodes
        /\ NormalBlockExit => /\ current_id = Top.id
                              /\ released' = released \cup {Top.id}]_vars

\* a call has returned and released its activation scope, after a block in
\* its body was left with Ok and released the scope it created
C30_Witness ==
  /\ pc = "run"
  /\ last.op = "CallExit"
  /\ role[last.id] = "activation" /\ last.id \in released
  /\ \E id \in released : role[id] = "block" /\ id > last.id /\ id \notin DOMAIN nodes

=============================================================================
